---- MODULE Spec2Model ----
(***************************************************************************)
(* A/B-testing allocation and lifecycle core: the document store, the      *)
(* persistence gateway (crud.py), the repository (repository.py), the      *)
(* experiment / variant services (services.py) and the serving interface   *)
(* (interface.py).  Every access to the shared store is one atomic step;   *)
(* a caller's position between two accesses is its pc, and what it has     *)
(* read so far is in loc.                                                  *)
(***************************************************************************)
EXTENDS Integers, Sequences, FiniteSets, TLC

VARIABLES db, clock, pc, op, loc, ret, pre, last, pushed

\* history variables: pre is the store when the call in flight began, last
\* the call completed before it, pushed the membership pushes completed
ghost == <<pre, last, pushed>>

vars == <<db, clock, pc, op, loc, ret, pre, last, pushed>>

----------------------------------------------------------------------------
(* Bounds of the model *)

\* datetime.now() is sampled at most MaxClock times in a run
MaxClock == 3
\* allocation weights are drawn from 0..MaxWeight
MaxWeight == 1

ExpIds == {"e1", "e2"}
VarIds == {"v1", "v2"}
PartIds == {"u1", "u2"}
UserIds == {"w1", "w2"}
Callers == {"c1", "c2"}
Weights == 0..MaxWeight

----------------------------------------------------------------------------
(* Entity model (models.py) *)

\* Python's None for a model instance / a missing document
None == [none |-> TRUE]

\* Optional[uuid.UUID] that is None
NoUuid == "None"

\* a datetime field that is None
NoDate == 0

ExperimentStatus == {"CREATED", "RUNNING", "PAUSED", "STOPPED", "COMPLETED"}

\* ExperimentStatus.X.value
EnumValue(m) ==
    CASE m = "CREATED" -> "created"
      [] m = "RUNNING" -> "running"
      [] m = "PAUSED" -> "paused"
      [] m = "STOPPED" -> "stopped"
      [] m = "COMPLETED" -> "completed"

\* str.lower() on the spellings of a status tag that occur
Lower(s) ==
    CASE s \in {"created", "Created", "CREATED"} -> "created"
      [] s \in {"running", "Running", "RUNNING"} -> "running"
      [] s \in {"paused", "Paused", "PAUSED"} -> "paused"
      [] s \in {"stopped", "Stopped", "STOPPED"} -> "stopped"
      [] s \in {"completed", "Completed", "COMPLETED"} -> "completed"
      [] OTHER -> s

\* isinstance(value, Enum) for the value of a status field: a member, not a tag
IsEnum(x) == x \in ExperimentStatus

\* Experiment.__init__: a str status is parsed case-insensitively, a member kept
StatusInit(x) ==
    IF IsEnum(x) THEN x
    ELSE CHOOSE m \in ExperimentStatus : EnumValue(m) = Lower(x)

\* BaseCollectionModel.to_dict on a field value: Enum members become their value
ToDictValue(f, x) ==
    IF f = "experiment_status" /\ IsEnum(x) THEN EnumValue(x) ELSE x

\* BaseCollectionModel.to_dict
ToDict(inst) == [f \in DOMAIN inst |-> ToDictValue(f, inst[f])]

\* Hydrate without the constructor's parsing of the status
HydrateRaw(doc) == doc

\* model_class(**filtered_result): the instance a stored document hydrates to
Hydrate(doc) ==
    [f \in DOMAIN doc |->
        IF f = "experiment_status" THEN StatusInit(doc[f]) ELSE doc[f]]

\* the document of Experiment(): the constructor defaults, line 134-156
NewExperiment ==
    [experiment_uuid |-> NoUuid, experiment_status |-> "created",
     start_date |-> NoDate, end_date |-> NoDate, experiment_variants |-> <<>>]

\* the document create stores for Experiment() under identity e
StoredExperiment(e) == [NewExperiment EXCEPT !.experiment_uuid = e]

\* ExperimentVariant.__init__ default of allocation
DefaultAllocation == 1

\* ExperimentVariant(name=..., allocation=w) as stored by create under
\* identity v
NewVariant(v, w) ==
    [variant_uuid |-> v, name |-> v, description |-> "", allocation |-> w,
     participants |-> <<>>]

\* Ended with COMPLETED left out of the list
EndedOnlyStopped == {"STOPPED"}

\* the statuses in which an experiment has ended (services.py 100-103,
\* 184-187, 220-223, 244-247)
Ended == {"STOPPED", "COMPLETED"}

----------------------------------------------------------------------------
(* Persistence gateway (crud.py) and atomic store operations *)

\* The store: db[coll][id] is the document of collection coll that find_one
\* and update_one address by identity id (None when there is none), and
\* db.copies[coll][id] the number of further documents that carry the same
\* identity (no collection has a unique index)
Collections == {"experiments", "variants", "participants_to_users", "users"}

IdsOf(coll) ==
    CASE coll = "experiments" -> ExpIds
      [] coll = "variants" -> VarIds
      [] coll = "participants_to_users" -> PartIds
      [] coll = "users" -> UserIds

NoCopies == [coll \in Collections |-> [id \in IdsOf(coll) |-> 0]]

\* no participant linked to a user
NoLinks == [u \in PartIds |-> None]

\* no user
NoUsers == [w \in UserIds |-> None]

\* GenericCrud.read: find_one by identity, hydrated, or None
Read(coll, id) ==
    IF id \notin IdsOf(coll) THEN None
    ELSE IF db[coll][id] = None THEN None
    ELSE Hydrate(db[coll][id])

\* the collection after insert_one(dict) of a document with identity id
InsertDoc(coll, id, dict) ==
    IF db[coll][id] = None
    THEN [db EXCEPT ![coll][id] = dict]
    ELSE [db EXCEPT !.copies[coll][id] = @ + 1]

\* del model_dict[field]
Del(dict, field) == [f \in DOMAIN dict \ {field} |-> dict[f]]

\* the collection after update_one({uuid: id}, {"$set": dict})
SetDoc(coll, id, dict) ==
    IF id \notin IdsOf(coll) THEN db
    ELSE IF db[coll][id] = None THEN db
    ELSE [db EXCEPT ![coll][id] = [f \in DOMAIN @ |->
                        IF f \in DOMAIN dict THEN dict[f] ELSE @[f]]]

Range(s) == {s[i] : i \in 1..Len(s)}

\* AddToSet as a plain $push
AddToSetPush(arr, x) == Append(arr, x)

\* $addToSet on an array value
AddToSet(arr, x) == IF x \in Range(arr) THEN arr ELSE Append(arr, x)

\* the collection after update_one({uuid: id}, {"$addToSet": {field: x}})
PushDoc(coll, id, field, x) ==
    IF db[coll][id] = None THEN db
    ELSE [db EXCEPT ![coll][id][field] = AddToSet(@, x)]

\* Modified testing matched_count instead of modified_count
ModifiedMatched(newdb) == TRUE

\* update_result.modified_count == 1
Modified(newdb) == newdb # db

----------------------------------------------------------------------------
(* Callers: one call in flight per caller *)

\* a call: the operation and its identity arguments; arg carries any other
\* argument (a model instance, keyword arguments, a list of values)
OpArg(name, e, u, v, arg) ==
    [name |-> name, experiment_uuid |-> e, participant_uuid |-> u,
     variant_uuid |-> v, arg |-> arg]

Op(name, e, u, v) == OpArg(name, e, u, v, <<>>)

NoOp == Op("none", NoUuid, NoUuid, NoUuid)

NoKwargs == <<>>

Blank ==
    [experiment |-> None, gvn_experiment |-> None, lookup |-> None,
     i |-> 0, k |-> "", caller |-> "", variants |-> <<>>,
     selected |-> NoUuid, current_instance |-> None, kwargs |-> NoKwargs]

NoRet == [kind |-> "none", val |-> ""]

Goto(p, label, l) ==
    /\ pc' = [pc EXCEPT ![p] = label]
    /\ loc' = [loc EXCEPT ![p] = l]
    /\ UNCHANGED ret

Return(p, val) ==
    /\ pc' = [pc EXCEPT ![p] = "done"]
    /\ loc' = [loc EXCEPT ![p] = Blank]
    /\ ret' = [ret EXCEPT ![p] = [kind |-> "return", val |-> val]]

Raise(p, msg) ==
    /\ pc' = [pc EXCEPT ![p] = "done"]
    /\ loc' = [loc EXCEPT ![p] = Blank]
    /\ ret' = [ret EXCEPT ![p] = [kind |-> "raise", val |-> msg]]

\* attribute access on None
AttributeError == "AttributeError"

\* a bool result
Bool(b) == IF b THEN "True" ELSE "False"

----------------------------------------------------------------------------
(* BaseRepository.update: read, patch in memory, gateway update, re-read   *)

\* cls.model_class().instance_fields()
InstanceFields(coll) ==
    CASE coll = "experiments" ->
           {"experiment_uuid", "experiment_status", "start_date", "end_date",
            "experiment_variants"}
      [] coll = "users" ->
           {"username", "hashed_password", "random_salt", "user_uuid"}
      [] OTHER ->
           {"variant_uuid", "name", "description", "allocation",
            "participants"}

UUID_FIELD(coll) ==
    CASE coll = "experiments" -> "experiment_uuid"
      [] coll = "users" -> "user_uuid"
      [] OTHER -> "variant_uuid"

\* one keyword argument; kwargs are sequences of them, in the order of the call
Kw(f, v) == [f |-> f, v |-> v]

\* current_instance.__dict__[arg] = arg_value.value / arg_value, for the
\* arguments in order
RECURSIVE Patch(_, _)
Patch(inst, kwargs) ==
    IF kwargs = <<>> THEN inst
    ELSE LET arg == Head(kwargs).f
             arg_value == Head(kwargs).v
         IN  Patch([f \in DOMAIN inst |->
                      IF f # arg THEN inst[f]
                      ELSE IF f = "experiment_status" /\ IsEnum(arg_value)
                      THEN EnumValue(arg_value)
                      ELSE arg_value],
                   Tail(kwargs))

\* the lifecycle operations of ExperimentService
LifecycleOps ==
    {"start_experiment", "pause_experiment", "stop_experiment",
     "complete_experiment"}

BatchSetters == {"update_variant_allocations", "update_variant_descriptions"}

VariantUpdates == BatchSetters \cup {"update_allocation"}

\* the repository class of the update in flight, and its model_uuid argument
UpdColl(p) ==
    CASE op[p].name \in VariantUpdates -> "variants"
      [] op[p].name = "update_username" -> "users"
      [] OTHER -> "experiments"

UpdId(p) ==
    CASE op[p].name \in BatchSetters ->
           loc[p].experiment.experiment_variants[loc[p].i]
      [] op[p].name = "update_allocation" -> op[p].variant_uuid
      [] op[p].name = "update_username" -> op[p].arg[1]
      [] OTHER -> op[p].experiment_uuid

\* the keyword arguments of the update in flight
Kwargs(p) ==
    IF op[p].name = "repository_update" THEN op[p].arg ELSE loc[p].kwargs

\* the model_instance of the gateway update in flight, and its uuid
Instance(p) ==
    IF op[p].name = "crud_update" THEN op[p].arg[1]
    ELSE loc[p].current_instance

ModelUuid(p) == Instance(p)[UUID_FIELD(UpdColl(p))]

\* interface.py line 119-122 / 142-145: the batch setter goes on to the
\* variant at position i of the list it read, or returns True
BatchNext(p, i) ==
    IF i > Len(loc[p].experiment.experiment_variants)
    THEN Return(p, "True")
    ELSE IF op[p].name = "update_variant_allocations"
    THEN Goto(p, "ua_check", [loc[p] EXCEPT !.i = i])
    ELSE Goto(p, "upd_read",
              [loc[p] EXCEPT !.i = i,
                             !.kwargs = <<Kw("description", op[p].arg[i])>>])

\* what the caller of update does with its result: the lifecycle operations
\* read .experiment_status of it, the batch setters drop it, the others
\* return it (an instance is returned as its identity, None as NoUuid)
UpdDone(p, updated) ==
    CASE op[p].name \in LifecycleOps ->
           IF updated = None
           THEN Raise(p, AttributeError)
           ELSE Return(p, updated.experiment_status)
      [] op[p].name \in BatchSetters -> BatchNext(p, loc[p].i + 1)
      [] OTHER ->
           Return(p, IF updated = None THEN NoUuid
                     ELSE updated[UUID_FIELD(UpdColl(p))])

\* repository.py line 65-74: the read, then the loop over the arguments,
\* which raises at the first invalid one and fails on a None instance at
\* the first valid one (or in the gateway's to_dict when there is none)
UpdRead(p) ==
    /\ pc[p] = "upd_read"
    /\ LET cur == Read(UpdColl(p), UpdId(p))
           kw == Kwargs(p)
           invalid == {n \in 1..Len(kw) :
                         \/ kw[n].f \notin InstanceFields(UpdColl(p))
                         \/ kw[n].f = UUID_FIELD(UpdColl(p))}
       IN  IF invalid # {} /\ (cur # None \/ 1 \in invalid)
           THEN Raise(p, "Invalid field")
           ELSE IF cur = None
           THEN Raise(p, AttributeError)
           ELSE Goto(p, "upd_exists",
                     [loc[p] EXCEPT !.current_instance = Patch(cur, kw)])
    /\ UNCHANGED <<db, clock, op, ghost>>

\* UpdExists without the existence check
UpdExistsNoCheck(p) ==
    /\ pc[p] = "upd_exists"
    /\ Goto(p, "upd_write", loc[p])
    /\ UNCHANGED <<db, clock, op, ghost>>

\* crud.py line 84-91
UpdExists(p) ==
    /\ pc[p] = "upd_exists"
    /\ IF Read(UpdColl(p), ModelUuid(p)) = None
       THEN Raise(p, "Model does not exist")
       ELSE Goto(p, "upd_write", loc[p])
    /\ UNCHANGED <<db, clock, op, ghost>>

\* UpdWrite taking an acknowledged write for a modified document
UpdWriteAcknowledged(p) ==
    /\ pc[p] = "upd_write"
    /\ LET newdb == SetDoc(UpdColl(p), ModelUuid(p),
                           Del(ToDict(Instance(p)), UUID_FIELD(UpdColl(p))))
       IN  /\ db' = newdb
           /\ IF op[p].name = "crud_update"
              THEN Return(p, "True")
              ELSE Goto(p, "upd_reread", loc[p])
    /\ UNCHANGED <<clock, op, ghost>>

\* crud.py line 93-101 and repository.py line 76-82
UpdWrite(p) ==
    /\ pc[p] = "upd_write"
    /\ LET newdb == SetDoc(UpdColl(p), ModelUuid(p),
                           Del(ToDict(Instance(p)), UUID_FIELD(UpdColl(p))))
       IN  /\ db' = newdb
           /\ IF op[p].name = "crud_update"
              THEN Return(p, Bool(Modified(newdb)))
              ELSE IF Modified(newdb)
              THEN Goto(p, "upd_reread", loc[p])
              ELSE UpdDone(p, None)
    /\ UNCHANGED <<clock, op, ghost>>

\* repository.py line 80
UpdReread(p) ==
    /\ pc[p] = "upd_reread"
    /\ UpdDone(p, Read(UpdColl(p), UpdId(p)))
    /\ UNCHANGED <<db, clock, op, ghost>>

----------------------------------------------------------------------------
(* GenericCrud.create and BaseRepository.create, on the experiment         *)
(* collection                                                              *)

\* model_class(**kwargs): the instance Experiment.__init__ builds from the
\* keyword arguments that name its fields
Construct(kwargs) ==
    [f \in DOMAIN NewExperiment |->
        IF \E n \in 1..Len(kwargs) : kwargs[n].f = f
        THEN LET v == kwargs[CHOOSE n \in 1..Len(kwargs) : kwargs[n].f = f].v
             IN  IF f = "experiment_status" THEN StatusInit(v) ELSE v
        ELSE Hydrate(NewExperiment)[f]]

\* repository.py line 37-39
InvalidCreate(c) ==
    /\ c.name = "repository_create"
    /\ \E n \in 1..Len(c.arg) : c.arg[n].f \notin InstanceFields("experiments")

\* the model_instance a create call hands to the gateway
CreateInstance(c) ==
    IF c.name = "repository_create" THEN Construct(c.arg) ELSE c.arg[1]

\* uuid.uuid4(): an identity that no document carries
FreshUuids == {id \in ExpIds : db.experiments[id] = None}

\* crud.py line 44-47
CreateUuids(c) ==
    IF CreateInstance(c).experiment_uuid = NoUuid
    THEN FreshUuids
    ELSE {CreateInstance(c).experiment_uuid}

\* CreateRead without the check for an existing document
CreateReadNoCheck(p) ==
    /\ pc[p] = "cr_read"
    /\ IF InvalidCreate(op[p])
       THEN Raise(p, "Invalid field")
       ELSE \E model_uuid \in CreateUuids(op[p]) :
              Goto(p, "cr_insert",
                   [loc[p] EXCEPT !.current_instance = CreateInstance(op[p]),
                                  !.selected = model_uuid])
    /\ UNCHANGED <<db, clock, op, ghost>>

\* repository.py line 37-42 and crud.py line 41-50
CreateRead(p) ==
    /\ pc[p] = "cr_read"
    /\ IF InvalidCreate(op[p])
       THEN Raise(p, "Invalid field")
       ELSE \E model_uuid \in CreateUuids(op[p]) :
              IF Read("experiments", model_uuid) # None
              THEN Return(p, NoUuid)
              ELSE Goto(p, "cr_insert",
                        [loc[p] EXCEPT
                           !.current_instance = CreateInstance(op[p]),
                           !.selected = model_uuid])
    /\ UNCHANGED <<db, clock, op, ghost>>

\* crud.py line 52-56 and repository.py line 44-50: the gateway returns the
\* identity, the repository the instance with that identity
CreateInsert(p) ==
    /\ pc[p] = "cr_insert"
    /\ db' = InsertDoc("experiments", loc[p].selected,
                       [ToDict(loc[p].current_instance) EXCEPT
                          !.experiment_uuid = loc[p].selected])
    /\ Return(p, loc[p].selected)
    /\ UNCHANGED <<clock, op, ghost>>

----------------------------------------------------------------------------
(* GenericCrud.delete, on the experiment collection *)

\* the collection after delete_many({uuid: id})
DeleteDoc(coll, id) ==
    IF id \notin IdsOf(coll) THEN db
    ELSE [db EXCEPT ![coll][id] = None, !.copies[coll][id] = 0]

\* delete_result.deleted_count
DeletedCount(coll, id) ==
    IF id \notin IdsOf(coll) THEN 0
    ELSE IF db[coll][id] = None THEN 0
    ELSE 1 + db.copies[coll][id]

\* CrudDelete raising when there is nothing to delete
CrudDeleteStrict(p) ==
    /\ pc[p] = "del"
    /\ db' = DeleteDoc("experiments", op[p].experiment_uuid)
    /\ IF DeletedCount("experiments", op[p].experiment_uuid) >= 1
       THEN Return(p, op[p].experiment_uuid)
       ELSE Raise(p, "Failed to delete model")
    /\ UNCHANGED <<clock, op, ghost>>

\* crud.py line 109-121 (and BaseRepository.delete, repository.py line 89)
CrudDelete(p) ==
    /\ pc[p] = "del"
    /\ db' = DeleteDoc("experiments", op[p].experiment_uuid)
    /\ IF DeletedCount("experiments", op[p].experiment_uuid) >= 1
       THEN Return(p, op[p].experiment_uuid)
       ELSE Return(p, NoUuid)
    /\ UNCHANGED <<clock, op, ghost>>

----------------------------------------------------------------------------
(* ExperimentService lifecycle (services.py) *)

\* StartKwargs resuming with the status it found
StartKwargsKeep(status, now) ==
    IF status = "CREATED"
    THEN <<Kw("experiment_status", "RUNNING"), Kw("start_date", now)>>
    ELSE <<Kw("experiment_status", status)>>

\* StartKwargs stamping the start date on every start
StartKwargsStamp(status, now) ==
    <<Kw("experiment_status", "RUNNING"), Kw("start_date", now)>>

\* the fields start_experiment passes to update, line 191-200
StartKwargs(status, now) ==
    IF status = "CREATED"
    THEN <<Kw("experiment_status", "RUNNING"), Kw("start_date", now)>>
    ELSE <<Kw("experiment_status", "RUNNING")>>

\* ExperimentService.start_experiment, line 176-200
StartExperiment(p) ==
    /\ pc[p] = "start_read"
    /\ LET experiment == Read("experiments", op[p].experiment_uuid)
       IN  IF experiment = None
           THEN Raise(p, "Experiment not found") /\ UNCHANGED clock
           ELSE IF experiment.experiment_status = "RUNNING"
           THEN Return(p, "RUNNING") /\ UNCHANGED clock
           ELSE IF experiment.experiment_status \in Ended
           THEN Return(p, experiment.experiment_status) /\ UNCHANGED clock
           ELSE /\ experiment.experiment_status = "CREATED" => clock < MaxClock
                /\ clock' = IF experiment.experiment_status = "CREATED"
                            THEN clock + 1 ELSE clock
                /\ Goto(p, "upd_read",
                        [loc[p] EXCEPT !.kwargs =
                            StartKwargs(experiment.experiment_status,
                                        clock + 1)])
    /\ UNCHANGED <<db, op, ghost>>

\* PauseExperiment without the check for an experiment that has not started
PauseExperimentNoCreated(p) ==
    /\ pc[p] = "pause_read"
    /\ LET experiment == Read("experiments", op[p].experiment_uuid)
       IN  IF experiment = None
           THEN Raise(p, "Experiment not found")
           ELSE IF experiment.experiment_status = "PAUSED"
           THEN Return(p, "PAUSED")
           ELSE IF experiment.experiment_status \in Ended
           THEN Return(p, experiment.experiment_status)
           ELSE Goto(p, "upd_read",
                     [loc[p] EXCEPT !.kwargs =
                         <<Kw("experiment_status", "PAUSED")>>])
    /\ UNCHANGED <<db, clock, op, ghost>>

\* ExperimentService.pause_experiment, line 208-229
PauseExperiment(p) ==
    /\ pc[p] = "pause_read"
    /\ LET experiment == Read("experiments", op[p].experiment_uuid)
       IN  IF experiment = None
           THEN Raise(p, "Experiment not found")
           ELSE IF experiment.experiment_status = "PAUSED"
           THEN Return(p, "PAUSED")
           ELSE IF experiment.experiment_status = "CREATED"
           THEN Return(p, "CREATED")
           ELSE IF experiment.experiment_status \in Ended
           THEN Return(p, experiment.experiment_status)
           ELSE Goto(p, "upd_read",
                     [loc[p] EXCEPT !.kwargs =
                         <<Kw("experiment_status", "PAUSED")>>])
    /\ UNCHANGED <<db, clock, op, ghost>>

\* stop_experiment / complete_experiment: the end_state they pass
EndState(name) == IF name = "stop_experiment" THEN "STOPPED" ELSE "COMPLETED"

\* ExperimentService.end_experiment, line 240-253
EndExperiment(p) ==
    /\ pc[p] = "end_read"
    /\ LET experiment == Read("experiments", op[p].experiment_uuid)
       IN  IF experiment = None
           THEN Raise(p, "Experiment not found") /\ UNCHANGED clock
           ELSE IF experiment.experiment_status \in Ended
           THEN Return(p, experiment.experiment_status) /\ UNCHANGED clock
           ELSE /\ clock < MaxClock
                /\ clock' = clock + 1
                /\ Goto(p, "upd_read",
                        [loc[p] EXCEPT !.kwargs =
                            <<Kw("experiment_status", EndState(op[p].name)),
                              Kw("end_date", clock + 1)>>])
    /\ UNCHANGED <<db, op, ghost>>

\* InProgress with COMPLETED left out of the list
InProgressNoCompleted(experiment) ==
    experiment.experiment_status \in {"RUNNING", "PAUSED"}

\* InProgress with only STOPPED counted as not in progress
InProgressNotStopped(experiment) ==
    experiment.experiment_status # "STOPPED"

\* ExperimentService.experiment_in_progress, line 161-169
InProgress(experiment) ==
    experiment.experiment_status \in {"RUNNING", "PAUSED", "COMPLETED"}


ExperimentInProgress(p) ==
    /\ pc[p] = "inprog_read"
    /\ LET experiment == Read("experiments", op[p].experiment_uuid)
       IN  IF experiment = None
           THEN Raise(p, "Experiment not found")
           ELSE Return(p, Bool(InProgress(experiment)))
    /\ UNCHANGED <<db, clock, op, ghost>>

----------------------------------------------------------------------------
(* Membership pushes (repository.py) and their service wrappers *)

\* the variant a push_participant step targets: the argument of a direct
\* call, or the variant selected by the admission that makes the call
TargetVariant(p) ==
    IF op[p].name \in {"push_participant", "add_participant_to_variant"}
    THEN op[p].variant_uuid
    ELSE loc[p].selected

\* add_participant_to_experiment returns selected_variant.uuid, to
\* get_variant_name (interface.py line 56) or to the caller
AddReturn(p, l) ==
    IF l.caller = "gvn"
    THEN Goto(p, "gvn_new_name", l)
    ELSE Return(p, l.selected)

\* AddVariantRead without the existence check
AddVariantReadNoCheck(p) ==
    /\ pc[p] = "av_read"
    /\ Goto(p, "av_push", loc[p])
    /\ UNCHANGED <<db, clock, op, ghost>>

\* ExperimentService.add_variant_to_experiment, line 65-67
AddVariantRead(p) ==
    /\ pc[p] = "av_read"
    /\ IF Read("experiments", op[p].experiment_uuid) = None
       THEN Raise(p, "Experiment not found")
       ELSE Goto(p, "av_push", loc[p])
    /\ UNCHANGED <<db, clock, op, ghost>>

\* ExperimentRepository.push_variant, line 124-132
PushVariant(p) ==
    /\ pc[p] = "av_push"
    /\ LET newdb == PushDoc("experiments", op[p].experiment_uuid,
                            "experiment_variants", op[p].variant_uuid)
       IN  /\ db' = newdb
           /\ Return(p, Bool(Modified(newdb)))
    /\ UNCHANGED <<clock, op, ghost>>

\* ExperimentVariantService.add_participant_to_variant, line 314-316
AddParticipantRead(p) ==
    /\ pc[p] = "apv_read"
    /\ IF Read("variants", TargetVariant(p)) = None
       THEN Raise(p, "Variant not found")
       ELSE Goto(p, "apv_push", loc[p])
    /\ UNCHANGED <<db, clock, op, ghost>>

\* PushParticipant with an admission failing when the set did not change
PushParticipantStrict(p) ==
    /\ pc[p] = "apv_push"
    /\ LET newdb == PushDoc("variants", TargetVariant(p),
                            "participants", op[p].participant_uuid)
       IN  /\ db' = newdb
           /\ IF op[p].name \in {"push_participant", "add_participant_to_variant"}
              THEN Return(p, Bool(Modified(newdb)))
              ELSE IF Modified(newdb)
              THEN AddReturn(p, loc[p])
              ELSE Raise(p, "Participant already in variant")
    /\ UNCHANGED <<clock, op, ghost>>

\* ExperimentVariantRepository.push_participant, line 156-164; an admission
\* ignores the result and returns the selected variant (services.py 123-127)
PushParticipant(p) ==
    /\ pc[p] = "apv_push"
    /\ LET newdb == PushDoc("variants", TargetVariant(p),
                            "participants", op[p].participant_uuid)
       IN  /\ db' = newdb
           /\ IF op[p].name \in {"push_participant", "add_participant_to_variant"}
              THEN Return(p, Bool(Modified(newdb)))
              ELSE AddReturn(p, loc[p])
    /\ UNCHANGED <<clock, op, ghost>>

----------------------------------------------------------------------------
(* Membership lookup: ExperimentService.get_variant_uuid_for_participant   *)
(* (and participant_in_experiment, which tests its result against None)    *)

\* what the caller of the lookup does with its result r
\* NoNewAdmission with PAUSED left out
NoNewAdmissionCompleted == {"COMPLETED"}

\* interface.py line 50-53: the statuses in which get_variant_name admits no
\* new participant
NoNewAdmission == {"COMPLETED", "PAUSED"}

LookupDone(p, r) ==
    LET l == [loc[p] EXCEPT !.lookup = None, !.i = 0, !.k = ""]
    IN  CASE loc[p].k = "add" ->
               \* services.py line 109-112
               IF r # NoUuid
               THEN Raise(p, "Participant already in experiment")
               ELSE Goto(p, "ap_read_variant", [l EXCEPT !.i = 1])
          [] loc[p].k = "gvn_in" ->
               \* interface.py line 41-58
               IF r # NoUuid
               THEN Goto(p, "gv_read_exp", [l EXCEPT !.k = "gvn_uuid"])
               ELSE IF l.gvn_experiment.experiment_status \in NoNewAdmission
               THEN Return(p, "default")
               ELSE Goto(p, "ap_read_exp", [l EXCEPT !.caller = "gvn"])
          [] loc[p].k = "gvn_uuid" ->
               \* interface.py line 45-48
               Goto(p, "gvn_name", [l EXCEPT !.selected = r])

\* services.py line 144-148
LookupReadExperiment(p) ==
    /\ pc[p] = "gv_read_exp"
    /\ LET experiment == Read("experiments", op[p].experiment_uuid)
       IN  IF experiment = None
           THEN LookupDone(p, NoUuid)
           ELSE IF Len(experiment.experiment_variants) = 0
           THEN LookupDone(p, NoUuid)
           ELSE Goto(p, "gv_read_var",
                     [loc[p] EXCEPT !.lookup = experiment, !.i = 1])
    /\ UNCHANGED <<db, clock, op, ghost>>

\* ParticipantInVariant comparing with the first participant only
ParticipantInVariantFirst(variant, participant_uuid) ==
    IF variant = None THEN FALSE
    ELSE /\ variant.participants # <<>>
         /\ variant.participants[1] = participant_uuid

\* ParticipantInVariant that never finds the participant
ParticipantInVariantNever(variant, participant_uuid) == FALSE

\* ExperimentVariantService.participant_in_variant, line 301-305
ParticipantInVariant(variant, participant_uuid) ==
    IF variant = None THEN FALSE
    ELSE participant_uuid \in Range(variant.participants)

\* services.py line 148-154, one iteration
LookupReadVariant(p) ==
    /\ pc[p] = "gv_read_var"
    /\ LET variant_uuid == loc[p].lookup.experiment_variants[loc[p].i]
           variant == Read("variants", variant_uuid)
       IN  IF ParticipantInVariant(variant, op[p].participant_uuid)
           THEN LookupDone(p, variant_uuid)
           ELSE IF loc[p].i = Len(loc[p].lookup.experiment_variants)
           THEN LookupDone(p, NoUuid)
           ELSE Goto(p, "gv_read_var", [loc[p] EXCEPT !.i = @ + 1])
    /\ UNCHANGED <<db, clock, op, ghost>>

----------------------------------------------------------------------------
(* Admission: ExperimentService.add_participant_to_experiment *)

RECURSIVE SumSeq(_)
SumSeq(s) == IF s = <<>> THEN 0 ELSE Head(s) + SumSeq(Tail(s))

\* sum of the first n weights
CumWeight(weights, n) == SumSeq(SubSeq(weights, 1, n))

\* Choices taking the first index whose cumulative weight reaches r
ChoicesReaching(weights, r) ==
    CHOOSE i \in 1..Len(weights) :
        /\ CumWeight(weights, i) >= r
        /\ \A j \in 1..(i - 1) : CumWeight(weights, j) < r

\* random.choices(population, weights)[0] for the sample r in [0, total):
\* the first index whose cumulative weight exceeds r
Choices(weights, r) ==
    CHOOSE i \in 1..Len(weights) :
        /\ CumWeight(weights, i) > r
        /\ \A j \in 1..(i - 1) : CumWeight(weights, j) <= r

\* AdmitReadExperiment with the zero-variant check ahead of the ended check
AdmitReadExperimentVariantsFirst(p) ==
    /\ pc[p] = "ap_read_exp"
    /\ LET experiment == Read("experiments", op[p].experiment_uuid)
       IN  IF experiment = None
           THEN Raise(p, "Experiment not found")
           ELSE IF Len(experiment.experiment_variants) = 0
           THEN Raise(p, "No variants in experiment")
           ELSE IF experiment.experiment_status \in Ended
           THEN Raise(p, "Experiment has ended")
           ELSE Goto(p, "gv_read_exp",
                     [loc[p] EXCEPT !.experiment = experiment, !.k = "add"])
    /\ UNCHANGED <<db, clock, op, ghost>>

\* services.py line 96-107
AdmitReadExperiment(p) ==
    /\ pc[p] = "ap_read_exp"
    /\ LET experiment == Read("experiments", op[p].experiment_uuid)
       IN  IF experiment = None
           THEN Raise(p, "Experiment not found")
           ELSE IF experiment.experiment_status \in Ended
           THEN Raise(p, "Experiment has ended")
           ELSE IF Len(experiment.experiment_variants) = 0
           THEN Raise(p, "No variants in experiment")
           ELSE Goto(p, "gv_read_exp",
                     [loc[p] EXCEPT !.experiment = experiment, !.k = "add"])
    /\ UNCHANGED <<db, clock, op, ghost>>

\* AdmitReadVariant with the participant added to the first listed variant
\* ahead of the zero-sum check
AdmitReadVariantEager(p) ==
    /\ pc[p] = "ap_read_variant"
    /\ LET listed == loc[p].experiment.experiment_variants
           variants == Append(loc[p].variants, Read("variants", listed[loc[p].i]))
       IN  IF loc[p].i < Len(listed)
           THEN /\ Goto(p, "ap_read_variant",
                        [loc[p] EXCEPT !.variants = variants, !.i = @ + 1])
                /\ UNCHANGED db
           ELSE IF \E n \in 1..Len(variants) : variants[n] = None
           THEN Raise(p, AttributeError) /\ UNCHANGED db
           ELSE LET variant_allocations ==
                        [n \in 1..Len(variants) |-> variants[n].allocation]
                IN  IF SumSeq(variant_allocations) = 0
                    THEN /\ db' = PushDoc("variants", listed[1], "participants",
                                          op[p].participant_uuid)
                         /\ Raise(p, "No allocation for any variant")
                    ELSE /\ \E r \in 0..(SumSeq(variant_allocations) - 1) :
                              Goto(p, "apv_read",
                                   [loc[p] EXCEPT
                                      !.variants = <<>>, !.i = 0,
                                      !.selected =
                                        listed[Choices(variant_allocations, r)]])
                         /\ UNCHANGED db
    /\ UNCHANGED <<clock, op, ghost>>

\* services.py line 114-122: one get_variant per listed variant, then the
\* weights, the zero-sum check and the weighted draw
AdmitReadVariant(p) ==
    /\ pc[p] = "ap_read_variant"
    /\ LET listed == loc[p].experiment.experiment_variants
           variants == Append(loc[p].variants, Read("variants", listed[loc[p].i]))
       IN  IF loc[p].i < Len(listed)
           THEN Goto(p, "ap_read_variant",
                     [loc[p] EXCEPT !.variants = variants, !.i = @ + 1])
           ELSE IF \E n \in 1..Len(variants) : variants[n] = None
           THEN Raise(p, AttributeError)
           ELSE LET variant_allocations ==
                        [n \in 1..Len(variants) |-> variants[n].allocation]
                IN  IF SumSeq(variant_allocations) = 0
                    THEN Raise(p, "No allocation for any variant")
                    ELSE \E r \in 0..(SumSeq(variant_allocations) - 1) :
                           Goto(p, "apv_read",
                                [loc[p] EXCEPT
                                   !.variants = <<>>, !.i = 0,
                                   !.selected =
                                     listed[Choices(variant_allocations, r)]])
    /\ UNCHANGED <<db, clock, op, ghost>>

----------------------------------------------------------------------------
(* Serving: ExperimentInterface.get_variant_name *)

\* interface.py line 34-36
GvnReadExperiment(p) ==
    /\ pc[p] = "gvn_read_exp"
    /\ LET experiment == Read("experiments", op[p].experiment_uuid)
       IN  IF experiment = None
           THEN Raise(p, "Experiment not found")
           ELSE Goto(p, "gvn_inprog",
                     [loc[p] EXCEPT !.gvn_experiment = experiment])
    /\ UNCHANGED <<db, clock, op, ghost>>

\* interface.py line 38-39, through ExperimentService.experiment_in_progress
GvnInProgress(p) ==
    /\ pc[p] = "gvn_inprog"
    /\ LET experiment == Read("experiments", op[p].experiment_uuid)
       IN  IF experiment = None
           THEN Raise(p, "Experiment not found")
           ELSE IF ~InProgress(experiment)
           THEN Return(p, "default")
           ELSE Goto(p, "gv_read_exp", [loc[p] EXCEPT !.k = "gvn_in"])
    /\ UNCHANGED <<db, clock, op, ghost>>

\* get_variant(uuid).name
VariantName(p) ==
    LET variant == IF loc[p].selected = NoUuid THEN None
                   ELSE Read("variants", loc[p].selected)
    IN  IF variant = None
        THEN Raise(p, AttributeError)
        ELSE Return(p, variant.name)

\* interface.py line 48
GvnName(p) ==
    /\ pc[p] = "gvn_name"
    /\ VariantName(p)
    /\ UNCHANGED <<db, clock, op, ghost>>

\* interface.py line 59
GvnNewName(p) ==
    /\ pc[p] = "gvn_new_name"
    /\ VariantName(p)
    /\ UNCHANGED <<db, clock, op, ghost>>

----------------------------------------------------------------------------
(* Variant weights and descriptions: ExperimentVariantService               *)
(* .update_allocation and the batch setters of ExperimentInterface          *)

\* NegativeAllocation letting -1 through
NegativeAllocationBelow(new_allocation) == new_allocation < -1

\* services.py line 287
NegativeAllocation(new_allocation) == new_allocation < 0

\* UpdateAllocation giving every variant of a batch the first weight
UpdateAllocationHead(p) ==
    /\ pc[p] = "ua_check"
    /\ LET new_allocation == op[p].arg[1]
       IN  IF NegativeAllocation(new_allocation)
           THEN Raise(p, "Allocation must be a positive number")
           ELSE Goto(p, "upd_read",
                     [loc[p] EXCEPT !.kwargs =
                         <<Kw("allocation", new_allocation)>>])
    /\ UNCHANGED <<db, clock, op, ghost>>

\* ExperimentVariantService.update_allocation, line 287-292: called on its
\* own with the weight op.arg[1], or by update_variant_allocations with the
\* weight at position i of its list
UpdateAllocation(p) ==
    /\ pc[p] = "ua_check"
    /\ LET new_allocation == IF op[p].name = "update_allocation"
                             THEN op[p].arg[1]
                             ELSE op[p].arg[loc[p].i]
       IN  IF NegativeAllocation(new_allocation)
           THEN Raise(p, "Allocation must be a positive number")
           ELSE Goto(p, "upd_read",
                     [loc[p] EXCEPT !.kwargs =
                         <<Kw("allocation", new_allocation)>>])
    /\ UNCHANGED <<db, clock, op, ghost>>

\* BatchReadExperiment rejecting a list that holds a negative weight
BatchReadExperimentValidated(p) ==
    /\ pc[p] = "batch_read"
    /\ LET experiment == Read("experiments", op[p].experiment_uuid)
       IN  IF experiment = None
           THEN Return(p, "False")
           ELSE IF Len(op[p].arg) # Len(experiment.experiment_variants)
           THEN Return(p, "False")
           ELSE IF /\ op[p].name = "update_variant_allocations"
                   /\ \E n \in 1..Len(op[p].arg) :
                        NegativeAllocation(op[p].arg[n])
           THEN Raise(p, "Allocation must be a positive number")
           ELSE Goto(p, "batch_inprog",
                     [loc[p] EXCEPT !.experiment = experiment])
    /\ UNCHANGED <<db, clock, op, ghost>>

\* interface.py line 109-114 and 132-137
BatchReadExperiment(p) ==
    /\ pc[p] = "batch_read"
    /\ LET experiment == Read("experiments", op[p].experiment_uuid)
       IN  IF experiment = None
           THEN Return(p, "False")
           ELSE IF Len(op[p].arg) # Len(experiment.experiment_variants)
           THEN Return(p, "False")
           ELSE Goto(p, "batch_inprog",
                     [loc[p] EXCEPT !.experiment = experiment])
    /\ UNCHANGED <<db, clock, op, ghost>>

\* BatchInProgress without the in-progress check
BatchInProgressNoCheck(p) ==
    /\ pc[p] = "batch_inprog"
    /\ LET experiment == Read("experiments", op[p].experiment_uuid)
       IN  IF experiment = None
           THEN Raise(p, "Experiment not found")
           ELSE BatchNext(p, 1)
    /\ UNCHANGED <<db, clock, op, ghost>>

\* interface.py line 116-119 and 139-142, through
\* ExperimentService.experiment_in_progress
BatchInProgress(p) ==
    /\ pc[p] = "batch_inprog"
    /\ LET experiment == Read("experiments", op[p].experiment_uuid)
       IN  IF experiment = None
           THEN Raise(p, "Experiment not found")
           ELSE IF ~InProgress(experiment)
           THEN Return(p, "False")
           ELSE BatchNext(p, 1)
    /\ UNCHANGED <<db, clock, op, ghost>>

----------------------------------------------------------------------------
(* ParticipantService.link_participant_to_user (services.py) *)

\* the document of ParticipantToUser(participant_uuid=u, user_uuid=w)
NewLink(u, w) == [participant_uuid |-> u, user_uuid |-> w]

\* LinkRead leaving the check for an existing link to the gateway
LinkReadNoCheck(p) ==
    /\ pc[p] = "link_read"
    /\ IF op[p].participant_uuid = NoUuid \/ op[p].arg[1] = NoUuid
       THEN Raise(p, "Participant and user UUIDs are required")
       ELSE Goto(p, "link_cr_read", loc[p])
    /\ UNCHANGED <<db, clock, op, ghost>>

\* services.py line 474-482
LinkRead(p) ==
    /\ pc[p] = "link_read"
    /\ IF op[p].participant_uuid = NoUuid \/ op[p].arg[1] = NoUuid
       THEN Raise(p, "Participant and user UUIDs are required")
       ELSE IF Read("participants_to_users", op[p].participant_uuid) # None
       THEN Raise(p, "Participant already linked to a user")
       ELSE Goto(p, "link_cr_read", loc[p])
    /\ UNCHANGED <<db, clock, op, ghost>>

\* ParticipantToUserRepository.create up to the gateway's check for an
\* existing document (repository.py line 36-42, crud.py line 41-50)
LinkCreateRead(p) ==
    /\ pc[p] = "link_cr_read"
    /\ IF Read("participants_to_users", op[p].participant_uuid) # None
       THEN Return(p, NoUuid)
       ELSE Goto(p, "link_insert", loc[p])
    /\ UNCHANGED <<db, clock, op, ghost>>

\* crud.py line 52-56 and repository.py line 44-50
LinkInsert(p) ==
    /\ pc[p] = "link_insert"
    /\ db' = InsertDoc("participants_to_users", op[p].participant_uuid,
                       NewLink(op[p].participant_uuid, op[p].arg[1]))
    /\ Return(p, op[p].participant_uuid)
    /\ UNCHANGED <<clock, op, ghost>>

----------------------------------------------------------------------------
(* AuthService.create_user and update_username (services.py) *)

COMMON_PASSWORDS == {"password", "123456"}

INVALID_CHARACTERS == {"@", "#", "%", "{", "}"}

\* the usernames given, each the sequence of its characters: two that meet
\* the rules, one that is too short and one with an invalid character
Usernames ==
    {<<"a", "l", "i", "c", "e">>, <<"c", "a", "r", "o", "l">>,
     <<"b", "o", "b">>, <<"a", "l", "@", "c", "e">>}

\* the passwords given: one that meets the rules, a common one, a short one
Passwords == {"correcthorse", "password", "short"}

\* bcrypt.gensalt()
Salts == {"s1"}

\* bcrypt.hashpw(password, salt)
HashPw(password, salt) == <<password, salt>>

\* AuthService.validate_password
validate_password(password) ==
    IF Len(password) < 8 THEN FALSE
    ELSE IF password \in COMMON_PASSWORDS THEN FALSE
    ELSE TRUE

\* the checks of validate_username before its read of the store
WellFormed(username) ==
    IF Len(username) < 5 \/ Len(username) > 50 THEN FALSE
    ELSE IF \E i \in 1..Len(username) : username[i] \in INVALID_CHARACTERS
    THEN FALSE
    ELSE TRUE

\* the document of User(username, hashed_password, random_salt, user_uuid)
NewUser(w, username, password, salt) ==
    [username |-> username, hashed_password |-> HashPw(password, salt),
     random_salt |-> salt, user_uuid |-> w]

\* uuid.uuid4(): an identity that no user carries
FreshUserUuids == {w \in UserIds : db.users[w] = None}

\* the username a call is given
Username(c) == IF c.name = "create_user" THEN c.arg[1] ELSE c.arg[2]

\* the identities find_one({"username": username}) can return
UsersNamed(username) ==
    {w \in UserIds : db.users[w] # None /\ db.users[w].username = username}

\* validate_username returned False
InvalidUsername(p) ==
    Raise(p, IF op[p].name = "create_user"
             THEN "Username does not meet requirements"
             ELSE "Invalid username")

\* validate_username returned True
ValidUsername(p) ==
    Goto(p, IF op[p].name = "create_user" THEN "cu_cr_read" ELSE "uu_get",
         loc[p])

\* services.py line 354-358 / 421-422, validate_username up to the find_one
\* of get_user_by_username (repository.py line 187)
ValidateFind(p) ==
    /\ pc[p] = "vu_find"
    /\ IF op[p].name = "create_user" /\ ~validate_password(op[p].arg[2])
       THEN Raise(p, "Password does not meet requirements")
       ELSE IF ~WellFormed(Username(op[p]))
       THEN InvalidUsername(p)
       ELSE IF UsersNamed(Username(op[p])) = {}
       THEN ValidUsername(p)
       ELSE \E w \in UsersNamed(Username(op[p])) :
              Goto(p, "vu_read", [loc[p] EXCEPT !.selected = w])
    /\ UNCHANGED <<db, clock, op, ghost>>

\* repository.py line 188-191 and services.py line 403-407
ValidateRead(p) ==
    /\ pc[p] = "vu_read"
    /\ IF Read("users", loc[p].selected) # None
       THEN InvalidUsername(p)
       ELSE ValidUsername(p)
    /\ UNCHANGED <<db, clock, op, ghost>>

\* UserRepository.create up to the gateway's check for an existing document
\* (services.py line 360-369, repository.py line 36-42, crud.py line 41-50)
CreateUserRead(p) ==
    /\ pc[p] = "cu_cr_read"
    /\ IF Read("users", op[p].arg[3]) # None
       THEN Return(p, NoUuid)
       ELSE Goto(p, "cu_insert", loc[p])
    /\ UNCHANGED <<db, clock, op, ghost>>

\* crud.py line 52-56, repository.py line 44-50 and services.py line 371
CreateUserInsert(p) ==
    /\ pc[p] = "cu_insert"
    /\ db' = InsertDoc("users", op[p].arg[3],
                       NewUser(op[p].arg[3], op[p].arg[1], op[p].arg[2],
                               op[p].arg[4]))
    /\ Return(p, op[p].arg[3])
    /\ UNCHANGED <<clock, op, ghost>>

\* services.py line 424-427: get_user, then UserRepository.update
GetUser(p) ==
    /\ pc[p] = "uu_get"
    /\ IF Read("users", op[p].arg[1]) = None
       THEN Raise(p, "User not found")
       ELSE Goto(p, "upd_read",
                 [loc[p] EXCEPT !.kwargs = <<Kw("username", op[p].arg[2])>>])
    /\ UNCHANGED <<db, clock, op, ghost>>

----------------------------------------------------------------------------

(* The active-record Experiment of app.py: the allocation reports *)

\* an int or a float, kept exact as the quotient num / den
Number(n) == [num |-> n, den |-> 1]

\* value / total_participants
TrueDiv(value, total) == [num |-> value, den |-> total]

RECURSIVE SumValues(_)
\* sum(allocations.values())
SumValues(d) ==
    IF DOMAIN d = {} THEN 0
    ELSE LET k == CHOOSE k \in DOMAIN d : TRUE
         IN  d[k] + SumValues([j \in DOMAIN d \ {k} |-> d[j]])

\* ExperimentVariant.number_of_participants
NumberOfParticipants(variant) == Len(variant.participants)

\* the dict the loop over get_variant_objs() builds, keyed by variant_uuid
CurrentCounts(e) ==
    [v \in Range(db.experiments[e].experiment_variants) |->
        NumberOfParticipants(db.variants[v])]

\* GetCurrentAllocations dividing whatever the total is
GetCurrentAllocationsNoGuard(p) ==
    /\ pc[p] = "cur_alloc"
    /\ LET allocations == CurrentCounts(op[p].experiment_uuid)
           total_participants == SumValues(allocations)
       IN  IF total_participants = 0 /\ DOMAIN allocations # {}
           THEN Raise(p, "ZeroDivisionError")
           ELSE Return(p, [v \in DOMAIN allocations |->
                              TrueDiv(allocations[v], total_participants)])
    /\ UNCHANGED <<db, clock, op, ghost>>

\* Experiment.get_current_allocations (app.py line 181-196); the variants
\* are loaded one after another by the only caller there is
GetCurrentAllocations(p) ==
    /\ pc[p] = "cur_alloc"
    /\ LET allocations == CurrentCounts(op[p].experiment_uuid)
           total_participants == SumValues(allocations)
       IN  IF total_participants > 0
           THEN Return(p, [v \in DOMAIN allocations |->
                              TrueDiv(allocations[v], total_participants)])
           ELSE Return(p, [v \in DOMAIN allocations |->
                              Number(allocations[v])])
    /\ UNCHANGED <<db, clock, op, ghost>>

\* Experiment.get_expected_allocations (app.py line 198-205)
GetExpectedAllocations(p) ==
    /\ pc[p] = "exp_alloc"
    /\ Return(p, [v \in Range(db.experiments[op[p].experiment_uuid]
                                  .experiment_variants) |->
                     Number(db.variants[v].allocation)])
    /\ UNCHANGED <<db, clock, op, ghost>>

----------------------------------------------------------------------------

(* Calls *)

AdmissionOps == {"add_participant_to_experiment", "get_variant_name"}

PushOps ==
    {"push_variant", "push_participant", "add_variant_to_experiment",
     "add_participant_to_variant"}

\* the reports of a loaded Experiment of app.py
AllocationOps == {"get_current_allocations", "get_expected_allocations"}

ServiceOps ==
    LifecycleOps \cup AdmissionOps \cup PushOps \cup {"experiment_in_progress"}

\* the first store access of each operation
FirstLabel(name) ==
    CASE name = "start_experiment" -> "start_read"
      [] name = "pause_experiment" -> "pause_read"
      [] name \in {"stop_experiment", "complete_experiment"} -> "end_read"
      [] name = "experiment_in_progress" -> "inprog_read"
      [] name = "add_participant_to_experiment" -> "ap_read_exp"
      [] name = "get_variant_name" -> "gvn_read_exp"
      [] name = "add_variant_to_experiment" -> "av_read"
      [] name = "push_variant" -> "av_push"
      [] name = "add_participant_to_variant" -> "apv_read"
      [] name = "push_participant" -> "apv_push"
      [] name = "update_allocation" -> "ua_check"
      [] name \in BatchSetters -> "batch_read"
      [] name \in {"crud_create", "repository_create"} -> "cr_read"
      [] name = "crud_update" -> "upd_exists"
      [] name = "crud_delete" -> "del"
      [] name = "repository_update" -> "upd_read"
      [] name = "link_participant_to_user" -> "link_read"
      [] name \in {"create_user", "update_username"} -> "vu_find"
      [] name = "get_current_allocations" -> "cur_alloc"
      [] name = "get_expected_allocations" -> "exp_alloc"

\* the weights and descriptions given to the setters: a negative weight,
\* zero and the weights of the model
AllocValues == -1..MaxWeight

Descriptions == {"d1", "d2"}

\* the lists over S no longer than the longest variant list
Lists(S) == UNION {[1..n -> S] : n \in 0..Cardinality(VarIds)}

\* the instances given to the gateway: Experiment(experiment_uuid=x) with
\* the status s, a member of the enum or a str assigned to the attribute
Instances ==
    {[Hydrate(NewExperiment) EXCEPT !.experiment_uuid = x,
                                    !.experiment_status = s] :
        x \in ExpIds \cup {NoUuid},
        s \in {"CREATED", "RUNNING", "running", "Running"}}

\* the keyword arguments given to the repository: a status as a member of
\* the enum and as a str, the identity field and a name that is no field, up
\* to two of them in either order
KwChoices ==
    {Kw("experiment_status", "PAUSED"), Kw("experiment_status", "Running"),
     Kw("experiment_uuid", "e1"),
     Kw("experiment_uuid", "e2"), Kw("bad_field", "bad")}

KwargsLists ==
    {<<>>} \cup {<<a>> : a \in KwChoices}
           \cup {ab \in KwChoices \X KwChoices : ab[1].f # ab[2].f}

\* the calls of an operation over the identities of the model
CallsOf(name) ==
    CASE name \in LifecycleOps \cup {"experiment_in_progress", "crud_delete"} ->
           {Op(name, e, NoUuid, NoUuid) : e \in ExpIds}
      [] name \in AdmissionOps ->
           {Op(name, e, u, NoUuid) : e \in ExpIds, u \in PartIds}
      [] name \in {"push_variant", "add_variant_to_experiment"} ->
           {Op(name, e, NoUuid, v) : e \in ExpIds, v \in VarIds}
      [] name \in {"push_participant", "add_participant_to_variant"} ->
           {Op(name, NoUuid, u, v) : u \in PartIds, v \in VarIds}
      [] name \in {"crud_create", "crud_update"} ->
           {OpArg(name, NoUuid, NoUuid, NoUuid, <<i>>) : i \in Instances}
      [] name = "repository_create" ->
           {OpArg(name, NoUuid, NoUuid, NoUuid, kw) : kw \in KwargsLists}
      [] name = "repository_update" ->
           {OpArg(name, e, NoUuid, NoUuid, kw) :
               e \in ExpIds, kw \in KwargsLists}
      [] name = "create_user" ->
           {OpArg(name, NoUuid, NoUuid, NoUuid, <<n, pw, w, s>>) :
               n \in Usernames, pw \in Passwords, w \in FreshUserUuids,
               s \in Salts}
      [] name = "update_username" ->
           {OpArg(name, NoUuid, NoUuid, NoUuid, <<w, n>>) :
               w \in UserIds, n \in Usernames}
      [] name = "update_allocation" ->
           {OpArg(name, NoUuid, NoUuid, v, <<a>>) :
               v \in VarIds, a \in AllocValues}
      [] name = "update_variant_allocations" ->
           {OpArg(name, e, NoUuid, NoUuid, l) :
               e \in ExpIds, l \in Lists(AllocValues)}
      [] name = "update_variant_descriptions" ->
           {OpArg(name, e, NoUuid, NoUuid, l) :
               e \in ExpIds, l \in Lists(Descriptions)}
      [] name = "link_participant_to_user" ->
           {OpArg(name, NoUuid, u, NoUuid, <<w>>) :
               u \in PartIds \cup {NoUuid}, w \in UserIds \cup {NoUuid}}
      [] name \in AllocationOps ->
           {Op(name, e, NoUuid, NoUuid) :
               e \in {x \in ExpIds : db.experiments[x] # None}}

\* caller p starts a call of one of the operations in names
Begin(p, names) ==
    /\ pc[p] = "idle"
    /\ \E name \in names : \E c \in CallsOf(name) :
         /\ op' = [op EXCEPT ![p] = c]
         /\ pc' = [pc EXCEPT ![p] = FirstLabel(name)]
    /\ UNCHANGED <<db, clock, loc, ret>>

\* caller p takes the result of its call
Ack(p) ==
    /\ pc[p] = "done"
    /\ pc' = [pc EXCEPT ![p] = "idle"]
    /\ op' = [op EXCEPT ![p] = NoOp]
    /\ ret' = [ret EXCEPT ![p] = NoRet]
    /\ UNCHANGED <<db, clock, loc>>

\* one step of a call in flight
Step(p) ==
    \/ UpdRead(p) \/ UpdExists(p) \/ UpdWrite(p) \/ UpdReread(p)
    \/ StartExperiment(p) \/ PauseExperiment(p) \/ EndExperiment(p)
    \/ ExperimentInProgress(p)
    \/ AddVariantRead(p) \/ PushVariant(p)
    \/ AddParticipantRead(p) \/ PushParticipant(p)
    \/ LookupReadExperiment(p) \/ LookupReadVariant(p)
    \/ AdmitReadExperiment(p) \/ AdmitReadVariant(p)
    \/ GvnReadExperiment(p) \/ GvnInProgress(p) \/ GvnName(p) \/ GvnNewName(p)

InitCallers ==
    /\ clock = 0
    /\ pc = [p \in Callers |-> "idle"]
    /\ op = [p \in Callers |-> NoOp]
    /\ loc = [p \in Callers |-> Blank]
    /\ ret = [p \in Callers |-> NoRet]
    /\ pre = db
    /\ last = [op |-> NoOp, ret |-> NoRet, pre |-> db]
    /\ pushed = {}

----------------------------------------------------------------------------
(* Sequential use: one call at a time, from a fresh experiment e1 (e2 is   *)
(* never created) and the variants v1, v2 with weights in Weights.         *)

Init ==
    /\ \E w \in [VarIds -> Weights] :
         db = [experiments |-> [e \in ExpIds |->
                                  IF e = "e1" THEN StoredExperiment(e) ELSE None],
               variants |-> [v \in VarIds |-> NewVariant(v, w[v])],
               participants_to_users |-> NoLinks,
               users |-> NoUsers,
               copies |-> NoCopies]
    /\ InitCallers

AllIdle == \A q \in Callers : pc[q] = "idle"

SeqBegin(p) ==
    /\ AllIdle
    /\ Begin(p, ServiceOps)
    /\ pre' = db
    /\ UNCHANGED <<last, pushed>>

SeqAck(p) ==
    /\ Ack(p)
    /\ UNCHANGED ghost

Next == \E p \in Callers : SeqBegin(p) \/ Step(p) \/ SeqAck(p)

Spec == Init /\ [][Next]_vars

----------------------------------------------------------------------------
(* Serving: admissions and get_variant_name on an experiment that was      *)
(* created with a status and a variant list (as Repository.create allows)  *)

VariantLists == {<<>>, <<"v1">>, <<"v1", "v2">>}

InitServing ==
    /\ \E w \in [VarIds -> Weights] :
       \E m \in ExperimentStatus :
       \E vs \in VariantLists :
         db = [experiments |-> [e \in ExpIds |->
                  IF e = "e1"
                  THEN [StoredExperiment(e) EXCEPT
                          !.experiment_status = EnumValue(m),
                          !.experiment_variants = vs]
                  ELSE None],
               variants |-> [v \in VarIds |-> NewVariant(v, w[v])],
               participants_to_users |-> NoLinks,
               users |-> NoUsers,
               copies |-> NoCopies]
    /\ InitCallers

\* the steps an admission or a get_variant_name call takes
ServingStep(p) ==
    \/ AddParticipantRead(p) \/ PushParticipant(p)
    \/ LookupReadExperiment(p) \/ LookupReadVariant(p)
    \/ AdmitReadExperiment(p) \/ AdmitReadVariant(p)
    \/ GvnReadExperiment(p) \/ GvnInProgress(p) \/ GvnName(p) \/ GvnNewName(p)

(* one call at a time; last is the call completed before the one in flight *)

RepeatBegin(p) ==
    /\ AllIdle
    /\ Begin(p, AdmissionOps)
    /\ pre' = db
    /\ UNCHANGED <<last, pushed>>

RepeatAck(p) ==
    /\ Ack(p)
    /\ last' = [op |-> op[p], ret |-> ret[p], pre |-> pre]
    /\ UNCHANGED <<pre, pushed>>

NextRepeat ==
    \E p \in Callers : RepeatBegin(p) \/ ServingStep(p) \/ RepeatAck(p)

SpecRepeat == InitServing /\ [][NextRepeat]_vars

(* concurrent callers *)

AdmitBegin(p) ==
    /\ Begin(p, AdmissionOps)
    /\ UNCHANGED ghost

AdmitAck(p) ==
    /\ Ack(p)
    /\ UNCHANGED ghost

NextAdmit ==
    \E p \in Callers : AdmitBegin(p) \/ ServingStep(p) \/ AdmitAck(p)

SpecAdmit == InitServing /\ [][NextAdmit]_vars

----------------------------------------------------------------------------
(* Concurrent membership pushes; pushed records the completed pushes whose *)
(* target exists                                                           *)

PushBegin(p) ==
    /\ Begin(p, PushOps)
    /\ UNCHANGED ghost

\* the push a completed call performed: collection, target, field, value
PushOf(c) ==
    IF c.name \in {"push_variant", "add_variant_to_experiment"}
    THEN [coll |-> "experiments", id |-> c.experiment_uuid,
          field |-> "experiment_variants", x |-> c.variant_uuid]
    ELSE [coll |-> "variants", id |-> c.variant_uuid,
          field |-> "participants", x |-> c.participant_uuid]

PushAck(p) ==
    /\ Ack(p)
    /\ pushed' = IF /\ ret[p].kind = "return"
                    /\ db[PushOf(op[p]).coll][PushOf(op[p]).id] # None
                 THEN pushed \cup {PushOf(op[p])}
                 ELSE pushed
    /\ UNCHANGED <<pre, last>>

PushStep(p) ==
    \/ AddVariantRead(p) \/ PushVariant(p)
    \/ AddParticipantRead(p) \/ PushParticipant(p)

NextPush == \E p \in Callers : PushBegin(p) \/ PushStep(p) \/ PushAck(p)

\* a fresh experiment e1 and the variants created with the default weight
InitPush ==
    /\ db = [experiments |-> [e \in ExpIds |->
                                IF e = "e1" THEN StoredExperiment(e) ELSE None],
             variants |-> [v \in VarIds |-> NewVariant(v, DefaultAllocation)],
             participants_to_users |-> NoLinks,
             users |-> NoUsers,
             copies |-> NoCopies]
    /\ InitCallers

SpecPush == InitPush /\ [][NextPush]_vars

----------------------------------------------------------------------------
(* One client calling the services one after another, on the experiment of *)
(* Init                                                                    *)

NextOne == SeqBegin("c1") \/ Step("c1") \/ SeqAck("c1")

SpecOne == Init /\ [][NextOne]_vars

----------------------------------------------------------------------------
(* One client setting weights and descriptions, one call after another, on *)
(* the experiments of InitServing                                          *)

UpdateBegin(p) ==
    /\ AllIdle
    /\ Begin(p, VariantUpdates)
    /\ pre' = db
    /\ UNCHANGED <<last, pushed>>

\* the steps a setter takes
UpdateStep(p) ==
    \/ UpdateAllocation(p) \/ BatchReadExperiment(p) \/ BatchInProgress(p)
    \/ UpdRead(p) \/ UpdExists(p) \/ UpdWrite(p) \/ UpdReread(p)

NextUpdate == UpdateBegin("c1") \/ UpdateStep("c1") \/ SeqAck("c1")

SpecUpdate == InitServing /\ [][NextUpdate]_vars

----------------------------------------------------------------------------
(* One client calling the gateway and the repository of the experiment     *)
(* collection, one call after another, on the store of Init                *)

GatewayOps ==
    {"crud_create", "crud_update", "repository_create", "repository_update"}

\* a create that draws its identity from uuid4 finds an unused one
GatewayBegin(p) ==
    /\ AllIdle
    /\ Begin(p, GatewayOps)
    /\ (/\ op'[p].name \in {"crud_create", "repository_create"}
        /\ ~InvalidCreate(op'[p]))
       => CreateUuids(op'[p]) # {}
    /\ pre' = db
    /\ UNCHANGED <<last, pushed>>

GatewayStep(p) ==
    \/ CreateRead(p) \/ CreateInsert(p)
    \/ UpdRead(p) \/ UpdExists(p) \/ UpdWrite(p) \/ UpdReread(p)

NextGateway == GatewayBegin("c1") \/ GatewayStep("c1") \/ SeqAck("c1")

SpecGateway == Init /\ [][NextGateway]_vars

----------------------------------------------------------------------------
(* One client creating, updating and deleting experiments through the      *)
(* gateway, one call after another; last is the call completed before the  *)
(* one in flight                                                           *)

StoreOps == {"crud_create", "crud_update", "crud_delete"}

StoreBegin(p) ==
    /\ AllIdle
    /\ Begin(p, StoreOps)
    /\ op'[p].name = "crud_create" => CreateUuids(op'[p]) # {}
    /\ pre' = db
    /\ UNCHANGED <<last, pushed>>

StoreStep(p) ==
    \/ CreateRead(p) \/ CreateInsert(p)
    \/ UpdExists(p) \/ UpdWrite(p)
    \/ CrudDelete(p)

NextStore == StoreBegin("c1") \/ StoreStep("c1") \/ RepeatAck("c1")

SpecStore == Init /\ [][NextStore]_vars

----------------------------------------------------------------------------
(* The allocation reports of app.py on the experiment e1 with up to two    *)
(* variants, any weights in Weights and any participants lists              *)

InitAllocations ==
    /\ \E w \in [VarIds -> Weights] :
       \E m \in [VarIds -> Lists(PartIds)] :
       \E vs \in VariantLists :
         db = [experiments |-> [e \in ExpIds |->
                  IF e = "e1"
                  THEN [StoredExperiment(e) EXCEPT !.experiment_variants = vs]
                  ELSE None],
               variants |-> [v \in VarIds |->
                  [NewVariant(v, w[v]) EXCEPT !.participants = m[v]]],
               participants_to_users |-> NoLinks,
               users |-> NoUsers,
               copies |-> NoCopies]
    /\ InitCallers

AllocationsBegin(p) ==
    /\ Begin(p, AllocationOps)
    /\ pre' = db
    /\ UNCHANGED <<last, pushed>>

NextAllocations ==
    \/ AllocationsBegin("c1")
    \/ GetCurrentAllocations("c1")
    \/ GetExpectedAllocations("c1")
    \/ SeqAck("c1")

SpecAllocations == InitAllocations /\ [][NextAllocations]_vars

----------------------------------------------------------------------------
(* Participants linked to users, one call after another, from a store with *)
(* no link                                                                 *)

LinkBegin(p) ==
    /\ Begin(p, {"link_participant_to_user"})
    /\ pre' = db
    /\ UNCHANGED <<last, pushed>>

LinkStep(p) == LinkRead(p) \/ LinkCreateRead(p) \/ LinkInsert(p)

NextLink == LinkBegin("c1") \/ LinkStep("c1") \/ SeqAck("c1")

SpecLink == Init /\ [][NextLink]_vars

----------------------------------------------------------------------------
(* A client setting weights and descriptions while another pushes          *)
(* participants to the variants; pushed records the completed pushes that  *)
(* reported a change                                                       *)

ParticipantPushes == {"push_participant", "add_participant_to_variant"}

\* c1 sets the weights and descriptions of the variants of e1, to weights
\* in Weights and the description d1; c2 pushes the participant u1
MemberBegin(p) ==
    /\ Begin(p, IF p = "c1" THEN VariantUpdates ELSE ParticipantPushes)
    /\ op'[p].experiment_uuid \in {"e1", NoUuid}
    /\ op'[p].participant_uuid \in {"u1", NoUuid}
    /\ \A n \in 1..Len(op'[p].arg) :
         IF op'[p].name = "update_variant_descriptions"
         THEN op'[p].arg[n] = "d1"
         ELSE op'[p].arg[n] \in Weights
    /\ op'[p].name \in BatchSetters
         => Len(op'[p].arg) = Len(db.experiments["e1"].experiment_variants)
    /\ UNCHANGED ghost

MemberAck(p) ==
    /\ Ack(p)
    /\ pushed' = IF /\ op[p].name \in PushOps
                    /\ ret[p] = [kind |-> "return", val |-> "True"]
                 THEN pushed \cup {PushOf(op[p])}
                 ELSE pushed
    /\ UNCHANGED <<pre, last>>

MemberStep(p) ==
    \/ UpdateStep(p)
    \/ AddParticipantRead(p) \/ PushParticipant(p)

NextMember == \E p \in Callers : MemberBegin(p) \/ MemberStep(p) \/ MemberAck(p)

\* the experiment e1, running, with the variants v1 and v2 at the default
\* weight and no participants
InitMember ==
    /\ db = [experiments |-> [e \in ExpIds |->
                IF e = "e1"
                THEN [StoredExperiment(e) EXCEPT
                        !.experiment_status = EnumValue("RUNNING"),
                        !.experiment_variants = <<"v1", "v2">>]
                ELSE None],
             variants |-> [v \in VarIds |-> NewVariant(v, DefaultAllocation)],
             participants_to_users |-> NoLinks,
             users |-> NoUsers,
             copies |-> NoCopies]
    /\ InitCallers

SpecMember == InitMember /\ [][NextMember]_vars

----------------------------------------------------------------------------
(* Two clients starting, pausing, stopping and completing experiments at   *)
(* the same time, from a fresh experiment e1                               *)

LifecycleBegin(p) ==
    /\ Begin(p, LifecycleOps)
    /\ UNCHANGED ghost

LifecycleStep(p) ==
    \/ StartExperiment(p) \/ PauseExperiment(p) \/ EndExperiment(p)
    \/ UpdRead(p) \/ UpdExists(p) \/ UpdWrite(p) \/ UpdReread(p)

NextLifecycle ==
    \E p \in Callers : LifecycleBegin(p) \/ LifecycleStep(p) \/ SeqAck(p)

SpecLifecycle == InitPush /\ [][NextLifecycle]_vars

----------------------------------------------------------------------------
(* One pause_experiment call by c1 and one start_experiment call by c2 on  *)
(* the experiment e1, which was created with any status, at the same time  *)

RaceBegin(p) ==
    /\ Begin(p, IF p = "c1" THEN {"pause_experiment"} ELSE {"start_experiment"})
    /\ op'[p].experiment_uuid = "e1"
    /\ UNCHANGED ghost

RaceStep(p) ==
    \/ StartExperiment(p) \/ PauseExperiment(p)
    \/ UpdRead(p) \/ UpdExists(p) \/ UpdWrite(p) \/ UpdReread(p)

\* each client calls once and keeps its result
NextRace == \E p \in Callers : RaceBegin(p) \/ RaceStep(p)

SpecRace == InitServing /\ [][NextRace]_vars

----------------------------------------------------------------------------
(* A client admitting participants to the running experiment of InitMember *)
(* while another stops or completes it                                     *)

EndOps == {"stop_experiment", "complete_experiment"}

EndingBegin(p) ==
    /\ Begin(p, IF p = "c1" THEN AdmissionOps ELSE EndOps)
    /\ UNCHANGED ghost

EndingStep(p) ==
    \/ ServingStep(p)
    \/ EndExperiment(p)
    \/ UpdRead(p) \/ UpdExists(p) \/ UpdWrite(p) \/ UpdReread(p)

NextEnding == \E p \in Callers : EndingBegin(p) \/ EndingStep(p) \/ SeqAck(p)

SpecEnding == InitMember /\ [][NextEnding]_vars

----------------------------------------------------------------------------
(* A client asking for variant names, one call after another, while        *)
(* another admits participants to the running experiment of InitMember;    *)
(* last is the get_variant_name call completed before the one in flight    *)

StickyBegin(p) ==
    /\ Begin(p, IF p = "c1" THEN {"get_variant_name"}
                ELSE {"add_participant_to_experiment"})
    /\ UNCHANGED ghost

StickyAck(p) == IF p = "c1" THEN RepeatAck(p) ELSE SeqAck(p)

NextSticky ==
    \E p \in Callers : StickyBegin(p) \/ ServingStep(p) \/ StickyAck(p)

SpecSticky == InitMember /\ [][NextSticky]_vars

----------------------------------------------------------------------------
(* Two clients admitting the participant u1 to the experiment e1 of        *)
(* InitServing at the same time, one call each                             *)

TwinBegin(p) ==
    /\ Begin(p, {"add_participant_to_experiment"})
    /\ op'[p].experiment_uuid = "e1"
    /\ op'[p].participant_uuid = "u1"
    /\ UNCHANGED ghost

TwinStep(p) ==
    \/ AdmitReadExperiment(p) \/ AdmitReadVariant(p)
    \/ LookupReadExperiment(p) \/ LookupReadVariant(p)
    \/ AddParticipantRead(p) \/ PushParticipant(p)

\* each client calls once and keeps its result
NextTwin == \E p \in Callers : TwinBegin(p) \/ TwinStep(p)

SpecTwin == InitServing /\ [][NextTwin]_vars

----------------------------------------------------------------------------
(* One client setting the weights and descriptions of the variants of e1   *)
(* in batches, one call after another; e1 was created with any status and  *)
(* variant list, the variants with any weight and with or without the      *)
(* participant u1                                                          *)

InitBatch ==
    /\ \E w \in [VarIds -> Weights] :
       \E m \in [VarIds -> {<<>>, <<"u1">>}] :
       \E s \in ExperimentStatus :
       \E vs \in VariantLists :
         db = [experiments |-> [e \in ExpIds |->
                  IF e = "e1"
                  THEN [StoredExperiment(e) EXCEPT
                          !.experiment_status = EnumValue(s),
                          !.experiment_variants = vs]
                  ELSE None],
               variants |-> [v \in VarIds |->
                  [NewVariant(v, w[v]) EXCEPT !.participants = m[v]]],
               participants_to_users |-> NoLinks,
               users |-> NoUsers,
               copies |-> NoCopies]
    /\ InitCallers

BatchBegin(p) ==
    /\ AllIdle
    /\ Begin(p, BatchSetters)
    /\ pre' = db
    /\ UNCHANGED <<last, pushed>>

NextBatch == BatchBegin("c1") \/ UpdateStep("c1") \/ SeqAck("c1")

SpecBatch == InitBatch /\ [][NextBatch]_vars

----------------------------------------------------------------------------
(* Two clients creating experiments through the gateway at the same time,  *)
(* each instance carrying its identity                                     *)

CreateBegin(p) ==
    /\ Begin(p, {"crud_create"})
    /\ op'[p].arg[1].experiment_uuid # NoUuid
    /\ UNCHANGED ghost

CreateStep(p) == CreateRead(p) \/ CreateInsert(p)

NextCreate == \E p \in Callers : CreateBegin(p) \/ CreateStep(p) \/ SeqAck(p)

SpecCreate == Init /\ [][NextCreate]_vars

----------------------------------------------------------------------------
(* A client starting, pausing, stopping and completing the fresh           *)
(* experiment e1 while another pushes variants to it; pushed records the   *)
(* completed pushes that reported a change                                 *)

VariantPushes == {"push_variant", "add_variant_to_experiment"}

ListingBegin(p) ==
    /\ Begin(p, IF p = "c1" THEN LifecycleOps ELSE VariantPushes)
    /\ op'[p].experiment_uuid = "e1"
    /\ UNCHANGED ghost

ListingStep(p) ==
    \/ LifecycleStep(p)
    \/ AddVariantRead(p) \/ PushVariant(p)

NextListing ==
    \E p \in Callers : ListingBegin(p) \/ ListingStep(p) \/ MemberAck(p)

SpecListing == InitPush /\ [][NextListing]_vars

----------------------------------------------------------------------------
(* Two clients creating users and renaming them, on a store with no user   *)

AuthOps == {"create_user", "update_username"}

\* the identity a create_user draws is one no other call in flight drew
AuthBegin(p) ==
    /\ Begin(p, AuthOps)
    /\ op'[p].name = "create_user"
       => \A q \in Callers \ {p} :
             op[q].name = "create_user" => op[q].arg[3] # op'[p].arg[3]
    /\ UNCHANGED ghost

AuthStep(p) ==
    \/ ValidateFind(p) \/ ValidateRead(p)
    \/ CreateUserRead(p) \/ CreateUserInsert(p)
    \/ GetUser(p)
    \/ UpdRead(p) \/ UpdExists(p) \/ UpdWrite(p) \/ UpdReread(p)

NextAuth == \E p \in Callers : AuthBegin(p) \/ AuthStep(p) \/ SeqAck(p)

SpecAuth == InitPush /\ [][NextAuth]_vars

----------------------------------------------------------------------------
(* Properties *)

\* x occurs in the array s
Member(x, s) == \E n \in 1..Len(s) : s[n] = x

\* caller p has completed a call of the operation name
Done(p, name) == pc[p] = "done" /\ op[p].name = name

Returned(p, val) == ret[p] = [kind |-> "return", val |-> val]

Raised(p, msg) == ret[p] = [kind |-> "raise", val |-> msg]

\* the typed status that the stored tag stands for
TagStatus(tag) ==
    CASE tag = "created" -> "CREATED"
      [] tag = "running" -> "RUNNING"
      [] tag = "paused" -> "PAUSED"
      [] tag = "stopped" -> "STOPPED"
      [] tag = "completed" -> "COMPLETED"

\* the experiment of p's call before the call and now
ExpBefore(p) == pre.experiments[op[p].experiment_uuid]
ExpNow(p) == db.experiments[op[p].experiment_uuid]

\* C3: an admission of a participant who is already a member of a variant
\* of a non-ended experiment with variants raises "Participant already in
\* experiment" and changes no membership set (nor anything else stored).
C3_ReadmissionRejected ==
    \A p \in Callers :
        (/\ Done(p, "add_participant_to_experiment")
         /\ ExpBefore(p) # None
         /\ ExpBefore(p).experiment_status \notin {"stopped", "completed"}
         /\ \E n \in 1..Len(ExpBefore(p).experiment_variants) :
              Member(op[p].participant_uuid,
                     pre.variants[ExpBefore(p).experiment_variants[n]].participants))
        => /\ Raised(p, "Participant already in experiment")
           /\ db = pre

C3_Witness ==
    \E p \in Callers :
        /\ Done(p, "add_participant_to_experiment")
        /\ Raised(p, "Participant already in experiment")
        /\ ExpBefore(p).experiment_status = "running"
        /\ Len(ExpBefore(p).experiment_variants) = 2
        /\ Member(op[p].participant_uuid,
                  pre.variants[ExpBefore(p).experiment_variants[2]].participants)

\* p's call is a membership push: the array pushed to, before and now, and
\* the value pushed
IsVariantPush(p) == op[p].name \in {"push_variant", "add_variant_to_experiment"}
IsParticipantPush(p) ==
    op[p].name \in {"push_participant", "add_participant_to_variant"}
PushTargetBefore(p) ==
    IF IsVariantPush(p) THEN pre.experiments[op[p].experiment_uuid]
    ELSE pre.variants[op[p].variant_uuid]
PushTargetNow(p) ==
    IF IsVariantPush(p) THEN db.experiments[op[p].experiment_uuid]
    ELSE db.variants[op[p].variant_uuid]
PushArray(doc, p) ==
    IF IsVariantPush(p) THEN doc.experiment_variants ELSE doc.participants
PushValue(p) ==
    IF IsVariantPush(p) THEN op[p].variant_uuid ELSE op[p].participant_uuid

\* C5: a push returns true exactly when the target exists and the value was
\* absent before the call, and the value is then present; it returns false
\* and leaves the store unchanged when the value was already a member.
C5_PushResult ==
    \A p \in Callers :
        (pc[p] = "done" /\ (IsVariantPush(p) \/ IsParticipantPush(p))
            /\ ret[p].kind = "return")
        => IF PushTargetBefore(p) = None
           THEN Returned(p, "False") /\ db = pre
           ELSE LET was == Member(PushValue(p),
                                  PushArray(PushTargetBefore(p), p))
                IN  /\ Returned(p, IF was THEN "False" ELSE "True")
                    /\ Member(PushValue(p), PushArray(PushTargetNow(p), p))
                    /\ was => db = pre

C5_Witness ==
    \E p \in Callers :
        /\ Done(p, "push_participant")
        /\ Returned(p, "False")
        /\ Member(PushValue(p), PushArray(PushTargetBefore(p), p))

\* C6: a stop or complete call on an experiment that is already STOPPED or
\* COMPLETED returns that status and changes neither the stored status nor
\* the end timestamp (nor anything else): the first terminal transition wins.
C6_TerminalWriteOnce ==
    \A p \in Callers :
        (/\ pc[p] = "done"
         /\ op[p].name \in {"stop_experiment", "complete_experiment"}
         /\ ExpBefore(p) # None
         /\ ExpBefore(p).experiment_status \in {"stopped", "completed"})
        => /\ Returned(p, TagStatus(ExpBefore(p).experiment_status))
           /\ ExpNow(p).experiment_status = ExpBefore(p).experiment_status
           /\ ExpNow(p).end_date = ExpBefore(p).end_date
           /\ db = pre

C6_Witness ==
    \E p \in Callers :
        /\ Done(p, "complete_experiment")
        /\ ExpBefore(p) # None
        /\ ExpBefore(p).experiment_status = "stopped"
        /\ ExpBefore(p).end_date # NoDate
        /\ Returned(p, "STOPPED")

\* C7: start_experiment from CREATED or PAUSED stores RUNNING and returns
\* RUNNING; from RUNNING it returns RUNNING and writes nothing; from STOPPED
\* or COMPLETED it returns that status and writes nothing.
C7_StartTransitions ==
    \A p \in Callers :
        (Done(p, "start_experiment") /\ ExpBefore(p) # None)
        => LET was == ExpBefore(p).experiment_status
           IN  IF was \in {"created", "paused"}
               THEN /\ Returned(p, "RUNNING")
                    /\ ExpNow(p).experiment_status = "running"
               ELSE /\ Returned(p, TagStatus(was))
                    /\ db = pre

C7_Witness ==
    \E p \in Callers :
        /\ Done(p, "start_experiment")
        /\ ExpBefore(p) # None
        /\ ExpBefore(p).experiment_status = "paused"
        /\ Returned(p, "RUNNING")
        /\ ExpNow(p).experiment_status = "running"

\* C8: pause_experiment from RUNNING stores PAUSED and returns PAUSED; from
\* CREATED, PAUSED, STOPPED or COMPLETED it returns the current status and
\* writes nothing (status, start and end timestamps unchanged).
C8_PauseTransitions ==
    \A p \in Callers :
        (Done(p, "pause_experiment") /\ ExpBefore(p) # None)
        => LET was == ExpBefore(p).experiment_status
           IN  IF was = "running"
               THEN /\ Returned(p, "PAUSED")
                    /\ ExpNow(p).experiment_status = "paused"
               ELSE /\ Returned(p, TagStatus(was))
                    /\ db = pre

C8_Witness ==
    \E p \in Callers :
        /\ Done(p, "pause_experiment")
        /\ ExpBefore(p) # None
        /\ ExpBefore(p).experiment_status = "running"
        /\ Returned(p, "PAUSED")
        /\ ExpNow(p).experiment_status = "paused"

\* C9: over sequential start / pause / stop / complete calls the start
\* timestamp is null while the status is CREATED, is non-null once a start
\* from CREATED has returned, and once non-null never changes.
C9_StartDateOnce ==
    /\ [](\A e \in ExpIds :
            (db.experiments[e] # None
                /\ db.experiments[e].experiment_status = "created")
            => db.experiments[e].start_date = NoDate)
    /\ [](\A p \in Callers :
            (Done(p, "start_experiment") /\ ExpBefore(p) # None
                /\ ExpBefore(p).experiment_status = "created")
            => ExpNow(p).start_date # NoDate)
    /\ [][\A e \in ExpIds :
            (db.experiments[e] # None
                /\ db.experiments[e].start_date # NoDate)
            => db'.experiments[e].start_date = db.experiments[e].start_date]_vars

C9_Witness ==
    \E p \in Callers :
        /\ Done(p, "start_experiment")
        /\ ExpBefore(p) # None
        /\ ExpBefore(p).experiment_status = "paused"
        /\ ExpBefore(p).start_date # NoDate
        /\ ExpNow(p).experiment_status = "running"
        /\ ExpNow(p).start_date = ExpBefore(p).start_date

\* C10: experiment_in_progress returns true exactly when the stored status
\* is RUNNING, PAUSED or COMPLETED, false when it is CREATED or STOPPED, and
\* raises "Experiment not found" when the experiment does not exist.
C10_InProgress ==
    \A p \in Callers :
        Done(p, "experiment_in_progress")
        => IF ExpBefore(p) = None
           THEN Raised(p, "Experiment not found")
           ELSE IF ExpBefore(p).experiment_status
                      \in {"running", "paused", "completed"}
           THEN Returned(p, "True")
           ELSE /\ ExpBefore(p).experiment_status \in {"created", "stopped"}
                /\ Returned(p, "False")

C10_Witness ==
    \E p \in Callers :
        /\ Done(p, "experiment_in_progress")
        /\ ExpBefore(p) # None
        /\ ExpBefore(p).experiment_status = "completed"
        /\ Returned(p, "True")

\* the variants listed by experiment e, in the store d, that have u as member
VariantsOf(d, e, u) ==
    {n \in 1..Len(d.experiments[e].experiment_variants) :
        Member(u, d.variants[d.experiments[e].experiment_variants[n]].participants)}

\* C2: under any interleaving of admissions and get_variant_name calls no
\* participant is a member of two variants listed by the same experiment.
C2_AtMostOneVariant ==
    \A e \in ExpIds : \A u \in PartIds :
        db.experiments[e] # None => Cardinality(VariantsOf(db, e, u)) <= 1

\* the call in flight repeats the call completed just before it, an
\* admission that returned a variant
Repeats(p) ==
    /\ Done(p, "add_participant_to_experiment")
    /\ last.op = op[p]
    /\ last.ret.kind = "return"

\* C1 as stated: the second of two admissions in sequence returns the same
\* variant as the first, and the variant's membership grows by exactly one.
C1_IdempotentAdmission ==
    \A p \in Callers :
        Repeats(p)
        => /\ ret[p] = last.ret
           /\ Len(db.variants[last.ret.val].participants)
                = Len(last.pre.variants[last.ret.val].participants) + 1

\* C1 amended: the first of two admissions in sequence returns a variant and
\* adds the participant to it; the second raises "Participant already in
\* experiment" and changes no state, so the variant's membership grows by
\* exactly one over the two calls.
C1_RepeatedAdmission ==
    \A p \in Callers :
        Repeats(p)
        => /\ Raised(p, "Participant already in experiment")
           /\ db = pre
           /\ Member(op[p].participant_uuid,
                     db.variants[last.ret.val].participants)
           /\ Len(db.variants[last.ret.val].participants)
                = Len(last.pre.variants[last.ret.val].participants) + 1
           /\ \A v \in VarIds \ {last.ret.val} :
                db.variants[v] = last.pre.variants[v]

C1_Witness ==
    \E p \in Callers :
        /\ Repeats(p)
        /\ last.ret.val = "v2"
        /\ Raised(p, "Participant already in experiment")

\* number of occurrences of x in the array s
Count(x, s) == Cardinality({n \in 1..Len(s) : s[n] = x})

\* the pushes completed: those recorded and those just returned
Completed ==
    pushed \cup
    {PushOf(op[p]) : p \in {q \in Callers :
        /\ pc[q] = "done"
        /\ (IsVariantPush(q) \/ IsParticipantPush(q))
        /\ ret[q].kind = "return"
        /\ db[PushOf(op[q]).coll][PushOf(op[q]).id] # None}}

\* C4: under any interleaving of pushes every pushed identity is in its
\* target set exactly once, and no identity occurs twice in any set.
C4_AtomicSetAdd ==
    /\ \A h \in Completed : Count(h.x, db[h.coll][h.id][h.field]) = 1
    /\ \A e \in ExpIds : \A v \in VarIds :
         db.experiments[e] # None
         => Count(v, db.experiments[e].experiment_variants) <= 1
    /\ \A v \in VarIds : \A u \in PartIds :
         Count(u, db.variants[v].participants) <= 1

C4_Witness ==
    \E p \in Callers : \E q \in Callers :
        /\ Done(p, "add_participant_to_variant")
        /\ Done(q, "add_participant_to_variant")
        /\ op[p].variant_uuid = op[q].variant_uuid
        /\ op[p].participant_uuid # op[q].participant_uuid
        /\ Returned(p, "True") /\ Returned(q, "True")
        /\ Len(db.variants[op[p].variant_uuid].participants) = 2

----------------------------------------------------------------------------
(* Admission checks *)

\* the experiment of p's call, before the call: p's participant is a member
\* of one of its variants, the total weight of its variants
MemberBefore(p) ==
    \E n \in 1..Len(ExpBefore(p).experiment_variants) :
        Member(op[p].participant_uuid,
               pre.variants[ExpBefore(p).experiment_variants[n]].participants)
WeightBefore(p) ==
    SumSeq([n \in 1..Len(ExpBefore(p).experiment_variants) |->
              pre.variants[ExpBefore(p).experiment_variants[n]].allocation])
EndedBefore(p) == ExpBefore(p).experiment_status \in {"stopped", "completed"}

\* C11 (as stated): the admission checks are applied in the order
\* membership, zero variants, ended, zero total weight: an already-assigned
\* participant gets their variant back even on a STOPPED or COMPLETED
\* experiment, an unassigned participant of an ended experiment with zero
\* variants gets "No variants in experiment", and one of an ended
\* experiment with variants gets "Experiment has ended".
C11_MembershipFirst ==
    \A p \in Callers :
        (Done(p, "add_participant_to_experiment") /\ ExpBefore(p) # None)
        => IF MemberBefore(p)
           THEN /\ ret[p].kind = "return"
                /\ ret[p].val \in Range(ExpBefore(p).experiment_variants)
                /\ Member(op[p].participant_uuid,
                          pre.variants[ret[p].val].participants)
           ELSE IF Len(ExpBefore(p).experiment_variants) = 0
           THEN Raised(p, "No variants in experiment")
           ELSE IF EndedBefore(p)
           THEN Raised(p, "Experiment has ended")
           ELSE WeightBefore(p) = 0
                => Raised(p, "No allocation for any variant")

\* C11 (amended): the admission checks are applied in the order ended,
\* zero variants, membership, zero total weight: on a STOPPED or COMPLETED
\* experiment every admission raises "Experiment has ended", on a non-ended
\* experiment with zero variants "No variants in experiment", for an
\* already-assigned participant "Participant already in experiment", and
\* with zero total weight "No allocation for any variant".
C11_EndedFirst ==
    \A p \in Callers :
        (Done(p, "add_participant_to_experiment") /\ ExpBefore(p) # None)
        => IF EndedBefore(p)
           THEN Raised(p, "Experiment has ended")
           ELSE IF Len(ExpBefore(p).experiment_variants) = 0
           THEN Raised(p, "No variants in experiment")
           ELSE IF MemberBefore(p)
           THEN Raised(p, "Participant already in experiment")
           ELSE WeightBefore(p) = 0
                => Raised(p, "No allocation for any variant")

C11_Witness ==
    \E p \in Callers :
        /\ Done(p, "add_participant_to_experiment")
        /\ ExpBefore(p) # None
        /\ EndedBefore(p)
        /\ MemberBefore(p)
        /\ Raised(p, "Experiment has ended")

\* C12: when add_participant_to_experiment raises (experiment not found,
\* experiment ended, no variants, zero total weight, or any other failure)
\* the store is as it was before the call: no membership set and no
\* experiment field has been modified.
C12_FailedAdmissionNoChange ==
    \A p \in Callers :
        (Done(p, "add_participant_to_experiment") /\ ret[p].kind = "raise")
        => db = pre

C12_Witness ==
    \E p \in Callers :
        /\ Done(p, "add_participant_to_experiment")
        /\ ExpBefore(p) # None
        /\ Len(ExpBefore(p).experiment_variants) = 2
        /\ ~MemberBefore(p)
        /\ Raised(p, "No allocation for any variant")

----------------------------------------------------------------------------
(* Serving *)

\* C13: get_variant_name on an experiment whose status is CREATED or STOPPED
\* returns "default" and changes nothing stored, for every participant,
\* members of one of the experiment's variants included.
C13_DefaultWhenNotInProgress ==
    \A p \in Callers :
        (/\ Done(p, "get_variant_name")
         /\ ExpBefore(p) # None
         /\ ExpBefore(p).experiment_status \in {"created", "stopped"})
        => Returned(p, "default") /\ db = pre

C13_Witness ==
    \E p \in Callers :
        /\ Done(p, "get_variant_name")
        /\ ExpBefore(p) # None
        /\ ExpBefore(p).experiment_status = "created"
        /\ MemberBefore(p)
        /\ Returned(p, "default")

\* the store after participant u was added to variant v of the store before
AdmittedTo(v, u) ==
    [pre EXCEPT !.variants[v].participants = Append(@, u)]

\* the names of the variants of p's experiment that p's participant was a
\* member of before the call
NamesBefore(p) ==
    {pre.variants[ExpBefore(p).experiment_variants[n]].name :
        n \in {i \in 1..Len(ExpBefore(p).experiment_variants) :
                 Member(op[p].participant_uuid,
                        pre.variants[ExpBefore(p).experiment_variants[i]]
                            .participants)}}

\* get_variant_name admitted p's participant to exactly one variant of the
\* experiment and returned that variant's name
AdmittedAndNamed(p) ==
    \E n \in 1..Len(ExpBefore(p).experiment_variants) :
        LET v == ExpBefore(p).experiment_variants[n]
        IN  /\ Returned(p, pre.variants[v].name)
            /\ db = AdmittedTo(v, op[p].participant_uuid)

ServedPausedOrCompleted(p) ==
    IF MemberBefore(p)
    THEN /\ ret[p].kind = "return"
         /\ ret[p].val \in NamesBefore(p)
         /\ db = pre
    ELSE Returned(p, "default") /\ db = pre

\* C14 (as stated): on a PAUSED or COMPLETED experiment get_variant_name
\* returns the name of the participant's variant when there is one, and
\* "default" without admitting otherwise; on a RUNNING experiment with an
\* unassigned participant it admits the participant to exactly one variant
\* and returns that variant's name.
C14_ServeOrAdmit ==
    \A p \in Callers :
        (Done(p, "get_variant_name") /\ ExpBefore(p) # None)
        => /\ ExpBefore(p).experiment_status \in {"paused", "completed"}
              => ServedPausedOrCompleted(p)
           /\ (ExpBefore(p).experiment_status = "running" /\ ~MemberBefore(p))
              => AdmittedAndNamed(p)

\* C14 (amended): as stated, the RUNNING case for an experiment that has at
\* least one variant and a positive total weight.
C14_ServeOrAdmitWhenPossible ==
    \A p \in Callers :
        (Done(p, "get_variant_name") /\ ExpBefore(p) # None)
        => /\ ExpBefore(p).experiment_status \in {"paused", "completed"}
              => ServedPausedOrCompleted(p)
           /\ (/\ ExpBefore(p).experiment_status = "running"
               /\ ~MemberBefore(p)
               /\ Len(ExpBefore(p).experiment_variants) > 0
               /\ WeightBefore(p) > 0)
              => AdmittedAndNamed(p)

C14_Witness ==
    \E p \in Callers :
        /\ Done(p, "get_variant_name")
        /\ ExpBefore(p) # None
        /\ ExpBefore(p).experiment_status = "running"
        /\ AdmittedAndNamed(p)
        /\ Len(ExpBefore(p).experiment_variants) = 2

----------------------------------------------------------------------------
(* Missing experiment *)

NeedExperiment ==
    {"start_experiment", "pause_experiment", "stop_experiment",
     "complete_experiment", "experiment_in_progress",
     "add_variant_to_experiment", "add_participant_to_experiment",
     "get_variant_name"}

\* C15: start, pause, stop/complete (end_experiment), experiment_in_progress,
\* add_variant_to_experiment, add_participant_to_experiment and
\* get_variant_name raise "Experiment not found" when the experiment is not
\* in the store, and the store is unchanged: no experiment document is
\* created and no other entity changes.
C15_ExperimentNotFound ==
    \A p \in Callers :
        (/\ pc[p] = "done"
         /\ op[p].name \in NeedExperiment
         /\ ExpBefore(p) = None)
        => /\ Raised(p, "Experiment not found")
           /\ db = pre
           /\ ExpNow(p) = None

C15_Witness ==
    \E p \in Callers :
        /\ Done(p, "add_variant_to_experiment")
        /\ ExpBefore(p) = None
        /\ Raised(p, "Experiment not found")

----------------------------------------------------------------------------
(* Weights and descriptions *)

\* the preconditions of a batch setter fail: no such experiment, a list of
\* another length than the variant list, or a status not in progress
BatchRefused(p) ==
    \/ ExpBefore(p) = None
    \/ Len(op[p].arg) # Len(ExpBefore(p).experiment_variants)
    \/ ExpBefore(p).experiment_status \in {"created", "stopped"}

HasNegative(p) ==
    /\ op[p].name = "update_variant_allocations"
    /\ \E n \in 1..Len(op[p].arg) : op[p].arg[n] < 0

\* C16 (as stated): update_variant_allocations and
\* update_variant_descriptions return false and leave every variant's
\* weight and description unchanged when the experiment does not exist, the
\* list length differs from the variant count or the status is CREATED or
\* STOPPED; otherwise they return true.
C16_BatchSetterResult ==
    \A p \in Callers :
        (pc[p] = "done" /\ op[p].name \in BatchSetters)
        => IF BatchRefused(p)
           THEN Returned(p, "False") /\ db = pre
           ELSE Returned(p, "True")

\* C16 (amended): as stated, and otherwise they return true unless a given
\* weight is negative, in which case update_variant_allocations raises
\* "Allocation must be a positive number".
C16_BatchSetterResultNonNegative ==
    \A p \in Callers :
        (pc[p] = "done" /\ op[p].name \in BatchSetters)
        => IF BatchRefused(p)
           THEN Returned(p, "False") /\ db = pre
           ELSE IF HasNegative(p)
           THEN Raised(p, "Allocation must be a positive number")
           ELSE Returned(p, "True")

C16_Witness ==
    \E p \in Callers :
        /\ Done(p, "update_variant_allocations")
        /\ ExpBefore(p) # None
        /\ ExpBefore(p).experiment_status = "created"
        /\ Len(ExpBefore(p).experiment_variants) = 2
        /\ Len(op[p].arg) = 2
        /\ \E n \in 1..2 :
             op[p].arg[n] # pre.variants[ExpBefore(p).experiment_variants[n]]
                                .allocation
        /\ ~HasNegative(p)
        /\ Returned(p, "False")

\* C17: every stored variant weight is greater than or equal to 0 after
\* any sequence of update_allocation / update_variant_allocations calls,
\* and update_allocation with a negative value raises and leaves the store
\* as it was.
C17_WeightsNonNegative ==
    /\ \A v \in VarIds : db.variants[v] # None => db.variants[v].allocation >= 0
    /\ \A p \in Callers :
         (Done(p, "update_allocation") /\ op[p].arg[1] < 0)
         => /\ Raised(p, "Allocation must be a positive number")
            /\ db = pre

C17_Witness ==
    \E p \in Callers :
        /\ Done(p, "update_allocation")
        /\ op[p].arg[1] < 0
        /\ Raised(p, "Allocation must be a positive number")
        /\ pre.variants[op[p].variant_uuid].allocation > 0

----------------------------------------------------------------------------
(* Gateway and repository *)

\* the instance handed to a gateway call and the identity it carries
GivenInstance(p) == op[p].arg[1]
GivenUuid(p) == GivenInstance(p).experiment_uuid
StoredBefore(id) == IF id = NoUuid THEN None ELSE pre.experiments[id]

\* the member of the status enum that a given status stands for: the member
\* itself, or the one a str names in whatever letter case
StatusNamed(s) ==
    CASE s \in {"CREATED", "created", "Created"} -> "CREATED"
      [] s \in {"RUNNING", "running", "Running"} -> "RUNNING"
      [] s \in {"PAUSED", "paused", "Paused"} -> "PAUSED"
      [] s \in {"STOPPED", "stopped", "Stopped"} -> "STOPPED"
      [] s \in {"COMPLETED", "completed", "Completed"} -> "COMPLETED"

\* the entity with its status as a member of the enum
Typed(inst) == [inst EXCEPT !.experiment_status = StatusNamed(@)]

\* C18: gateway create with an identity that is already in the collection
\* returns null and leaves the store unchanged; with a fresh or absent
\* identity it inserts the entity, and nothing else, and returns its
\* identity, and a read of that identity returns the entity.
C18_CreateNeverOverwrites ==
    \A p \in Callers :
        Done(p, "crud_create")
        => IF StoredBefore(GivenUuid(p)) # None
           THEN Returned(p, NoUuid) /\ db = pre
           ELSE /\ ret[p].kind = "return"
                /\ ret[p].val \in ExpIds
                /\ GivenUuid(p) # NoUuid => ret[p].val = GivenUuid(p)
                /\ pre.experiments[ret[p].val] = None
                /\ Read("experiments", ret[p].val) =
                     Typed([GivenInstance(p) EXCEPT
                              !.experiment_uuid = ret[p].val])
                /\ db = [pre EXCEPT !.experiments[ret[p].val] =
                                       db.experiments[ret[p].val]]

C18_Witness ==
    \E p \in Callers :
        /\ Done(p, "crud_create")
        /\ StoredBefore(GivenUuid(p)) # None
        /\ Hydrate(StoredBefore(GivenUuid(p))) # GivenInstance(p)
        /\ Returned(p, NoUuid)

\* every stored document carries the identity it is found by
IdentityKept ==
    \A coll \in Collections : \A id \in IdsOf(coll) :
        db[coll][id] # None => db[coll][id][UUID_FIELD(coll)] = id

\* C19: gateway update of an entity whose identity is not in the collection
\* raises "Model does not exist" and inserts nothing; an update that
\* succeeds leaves the identity field of the stored document as it was, as
\* does every other call.
C19_UpdateNeedsExistence ==
    /\ IdentityKept
    /\ \A p \in Callers :
         Done(p, "crud_update")
         => IF StoredBefore(GivenUuid(p)) = None
            THEN Raised(p, "Model does not exist") /\ db = pre
            ELSE /\ ret[p].kind = "return"
                 /\ db.experiments[GivenUuid(p)].experiment_uuid
                      = pre.experiments[GivenUuid(p)].experiment_uuid

C19_Witness ==
    \E p \in Callers :
        /\ Done(p, "crud_update")
        /\ GivenUuid(p) \in ExpIds
        /\ StoredBefore(GivenUuid(p)) = None
        /\ Raised(p, "Model does not exist")

\* the keyword arguments of p's call name something that is no field, or,
\* for an update, the identity field
NamesInvalid(p) ==
    \E n \in 1..Len(op[p].arg) :
        \/ op[p].arg[n].f \notin InstanceFields("experiments")
        \/ /\ op[p].name = "repository_update"
           /\ op[p].arg[n].f = UUID_FIELD("experiments")

\* C20: a repository create with an unknown field name, and a repository
\* update with an unknown field name or the identity field, raise "Invalid
\* field" and leave the store unchanged, also when valid fields come before
\* the invalid one in the call.
C20_InvalidFieldRejected ==
    \A p \in Callers :
        (/\ pc[p] = "done"
         /\ op[p].name \in {"repository_create", "repository_update"}
         /\ NamesInvalid(p))
        => Raised(p, "Invalid field") /\ db = pre

\* the store before p's call without the documents of identity id
Deleted(id) == [pre EXCEPT !.experiments[id] = None,
                           !.copies.experiments[id] = 0]

\* C21: delete of an existing identity returns that identity, removes its
\* document and nothing else, and a following read returns absent; delete
\* of an identity that is not stored returns the nothing-deleted value
\* without raising and leaves the store unchanged; so a delete that repeats
\* the delete just before it changes nothing.
C21_DeleteIdempotent ==
    \A p \in Callers :
        Done(p, "crud_delete")
        => /\ IF pre.experiments[op[p].experiment_uuid] # None
              THEN /\ Returned(p, op[p].experiment_uuid)
                   /\ Read("experiments", op[p].experiment_uuid) = None
                   /\ db = Deleted(op[p].experiment_uuid)
              ELSE Returned(p, NoUuid) /\ db = pre
           /\ last.op = op[p] => db = pre

C21_Witness ==
    \E p \in Callers :
        /\ Done(p, "crud_delete")
        /\ last.op = op[p]
        /\ last.ret = [kind |-> "return", val |-> op[p].experiment_uuid]
        /\ Returned(p, NoUuid)

\* the value of field f read back for identity id is the value v given
\* for it, a status as the member of the enum it names
ReadBack(id, f, v) ==
    /\ Read("experiments", id) # None
    /\ Read("experiments", id)[f] =
         IF f = "experiment_status" THEN StatusNamed(v) ELSE v

\* C22: an entity created or updated through the gateway or the repository
\* is read back with the field values it was given, and a status given as a
\* str in any letter case is read back as the member of the status enum it
\* names.
C22_RoundTrip ==
    \A p \in Callers :
        (pc[p] = "done" /\ ret[p].kind = "return")
        => /\ (op[p].name = "crud_create" /\ ret[p].val # NoUuid)
              => \A f \in DOMAIN GivenInstance(p) \ {"experiment_uuid"} :
                    ReadBack(ret[p].val, f, GivenInstance(p)[f])
           /\ op[p].name = "crud_update"
              => \A f \in DOMAIN GivenInstance(p) :
                    ReadBack(GivenUuid(p), f, GivenInstance(p)[f])
           /\ (op[p].name = "repository_create" /\ ret[p].val # NoUuid)
              => \A n \in 1..Len(op[p].arg) :
                    ReadBack(ret[p].val, op[p].arg[n].f, op[p].arg[n].v)
           /\ op[p].name = "repository_update"
              => \A n \in 1..Len(op[p].arg) :
                    ReadBack(op[p].experiment_uuid,
                             op[p].arg[n].f, op[p].arg[n].v)

C22_Witness ==
    \E p \in Callers :
        /\ Done(p, "repository_update")
        /\ ret[p].kind = "return"
        /\ \E n \in 1..Len(op[p].arg) :
             op[p].arg[n] = Kw("experiment_status", "Running")
        /\ pre.experiments[op[p].experiment_uuid].experiment_status = "created"
        /\ db.experiments[op[p].experiment_uuid].experiment_status = "Running"
        /\ Read("experiments", op[p].experiment_uuid).experiment_status
             = "RUNNING"

----------------------------------------------------------------------------
(* Allocation reports *)

\* the variants of the experiment of p's call, and the membership count and
\* the declared weight of each
ReportVariants(p) == db.experiments[op[p].experiment_uuid].experiment_variants
MembershipCount(v) == Len(db.variants[v].participants)
TotalMembership(p) ==
    SumSeq([i \in 1..Len(ReportVariants(p)) |->
               MembershipCount(ReportVariants(p)[i])])
TotalWeight(p) ==
    SumSeq([i \in 1..Len(ReportVariants(p)) |->
               db.variants[ReportVariants(p)[i]].allocation])

\* the reported number x is the quotient a / b
IsQuotient(x, a, b) == x.den # 0 /\ x.num * b = a * x.den

\* C23: get_current_allocations reports, for each variant of the experiment,
\* its membership count divided by the total membership count of the
\* experiment's variants; when the total is zero it reports every variant at
\* 0 without failing on a division; with no variants the mapping is empty.
C23_ObservedAllocation ==
    \A p \in Callers :
        Done(p, "get_current_allocations") =>
            /\ ret[p].kind = "return"
            /\ DOMAIN ret[p].val = Range(ReportVariants(p))
            /\ \A v \in Range(ReportVariants(p)) :
                 IF TotalMembership(p) > 0
                 THEN IsQuotient(ret[p].val[v], MembershipCount(v),
                                 TotalMembership(p))
                 ELSE IsQuotient(ret[p].val[v], 0, 1)

\* a report of 1/3 and 2/3
C23_Witness ==
    \E p \in Callers :
        /\ Done(p, "get_current_allocations")
        /\ ReportVariants(p) = <<"v1", "v2">>
        /\ MembershipCount("v1") = 1
        /\ MembershipCount("v2") = 2
        /\ ret[p].kind = "return"

\* C24: get_expected_allocations reports, for each variant of an experiment
\* with a positive total weight, its declared weight divided by the sum of
\* the declared weights of the experiment's variants.
C24_ExpectedShares ==
    \A p \in Callers :
        (Done(p, "get_expected_allocations") /\ TotalWeight(p) > 0) =>
            /\ ret[p].kind = "return"
            /\ DOMAIN ret[p].val = Range(ReportVariants(p))
            /\ \A v \in Range(ReportVariants(p)) :
                 IsQuotient(ret[p].val[v], db.variants[v].allocation,
                            TotalWeight(p))

----------------------------------------------------------------------------
(* Links of participants to users *)

\* the link stored for participant u
LinkOf(u) == db.participants_to_users[u]

\* a link, once stored, stays the only one of its participant and keeps
\* its user
LinkKept ==
    \A u \in PartIds :
        LinkOf(u) # None =>
            /\ LinkOf(u)' = LinkOf(u)
            /\ db'.copies["participants_to_users"][u] = 0

\* a completed link call for a linked participant raised and changed
\* nothing; one that returned stored its user for a participant that had none
LinkResult ==
    \A p \in Callers :
        Done(p, "link_participant_to_user") =>
            /\ ( /\ op[p].participant_uuid \in PartIds
                 /\ op[p].arg[1] \in UserIds
                 /\ pre.participants_to_users[op[p].participant_uuid] # None )
               => ( /\ Raised(p, "Participant already linked to a user")
                    /\ db = pre )
            /\ ret[p].kind = "return"
               => ( /\ pre.participants_to_users[op[p].participant_uuid] = None
                    /\ LinkOf(op[p].participant_uuid)
                         = NewLink(op[p].participant_uuid, op[p].arg[1])
                    /\ db.copies["participants_to_users"]
                         [op[p].participant_uuid] = 0 )

\* C25: link_participant_to_user for a participant that already has a link
\* raises "Participant already linked to a user" and leaves the link as it
\* is, so over any sequence of link calls each participant has at most one
\* link, whose user is the one of the first successful call.
C25_LinkedOnce == []LinkResult /\ [][LinkKept]_vars

\* a second link call, with another user, was refused
C25_Witness ==
    \E p \in Callers :
        /\ Done(p, "link_participant_to_user")
        /\ op[p].participant_uuid = "u1"
        /\ op[p].arg[1] = "w2"
        /\ pre.participants_to_users["u1"] = NewLink("u1", "w1")
        /\ Raised(p, "Participant already linked to a user")

----------------------------------------------------------------------------
(* Membership under concurrent field updates *)

\* C26: a participant whose push to a variant reported that the set changed
\* is a member of that variant once the push and a concurrent Repository
\* update of the same variant (update_allocation, update_variant_allocations,
\* update_variant_descriptions) have both completed.
C26_MembershipKept ==
    AllIdle =>
        \A x \in pushed : Member(x.x, db[x.coll][x.id][x.field])

----------------------------------------------------------------------------
(* The lifecycle under concurrency *)

\* the stored status of e is STOPPED or COMPLETED
StoredEnded(e) ==
    /\ db.experiments[e] # None
    /\ db.experiments[e].experiment_status \in {"stopped", "completed"}

\* the stored status and end timestamp of an ended experiment stay
EndedKept ==
    \A e \in ExpIds :
        StoredEnded(e) =>
            /\ db'.experiments[e] # None
            /\ db'.experiments[e].experiment_status
                 = db.experiments[e].experiment_status
            /\ db'.experiments[e].end_date = db.experiments[e].end_date

\* C27: under any interleaving of start_experiment, pause_experiment,
\* stop_experiment and complete_experiment calls on one experiment, once the
\* stored status is STOPPED or COMPLETED it never changes again and the end
\* timestamp is not rewritten.
C27_TerminalAbsorbing == [][EndedKept]_vars

\* the status that the lifecycle call of p read when it decided to write:
\* pause writes on RUNNING only, start stamps the start date on CREATED only
DecidedOn(p) ==
    IF op[p].name = "pause_experiment" THEN "RUNNING"
    ELSE IF Len(loc[p].kwargs) = 2 THEN "CREATED"
    ELSE "PAUSED"

\* p is about to write and the stored status is the one it decided on
DecisionFresh(p) ==
    TagStatus(db.experiments[op[p].experiment_uuid].experiment_status)
        = DecidedOn(p)

\* every field that p is about to write and did not set itself is as stored
InstanceFresh(p) ==
    \A f \in DOMAIN db.experiments[op[p].experiment_uuid] :
        (\A n \in 1..Len(loc[p].kwargs) : loc[p].kwargs[n].f # f)
            => ToDict(loc[p].current_instance)[f]
                 = db.experiments[op[p].experiment_uuid][f]

\* the other call has written the status and not yet returned
OtherWrote(p) == \E q \in Callers \ {p} : pc[q] = "upd_reread"

MembershipClosed ==
    \A e \in ExpIds :
        StoredEnded(e) =>
            \A v \in Range(db.experiments[e].experiment_variants) :
                db'.variants[v].participants = db.variants[v].participants

\* C29: under any interleaving of add_participant_to_experiment and
\* get_variant_name with stop_experiment and complete_experiment, once the
\* stored status of an experiment is STOPPED or COMPLETED no participant is
\* added to the membership set of any of its variants.
C29_NoAdmissionAfterEnd == [][MembershipClosed]_vars

----------------------------------------------------------------------------
(* Served names over time *)

\* C30: once get_variant_name(E, P) has returned the name of a variant V, a
\* later get_variant_name(E, P) call, under any interleaving with other
\* admissions, returns the name of V or "default", never the name of a
\* different variant.
C30_StickyAssignment ==
    \A p \in Callers :
        ( /\ Done(p, "get_variant_name")
          /\ last.op = op[p]
          /\ last.ret.kind = "return"
          /\ last.ret.val # "default"
          /\ ret[p].kind = "return" )
        => ret[p].val \in {last.ret.val, "default"}

----------------------------------------------------------------------------
(* The variant an admission selects *)

\* C31: the variant identity that add_participant_to_experiment returns is
\* one of the identities in the experiment's variant list as the call read
\* it, the weight read for it was strictly positive, and the participant is
\* a member of that variant when the call returns.
C31_EligibleVariant ==
    \A p \in Callers :
        (Done(p, "add_participant_to_experiment") /\ ret[p].kind = "return")
        => /\ Member(ret[p].val, ExpBefore(p).experiment_variants)
           /\ pre.variants[ret[p].val].allocation > 0
           /\ Member(op[p].participant_uuid,
                     db.variants[ret[p].val].participants)

\* the second of two listed variants was selected, the first having weight 0
C31_Witness ==
    \E p \in Callers :
        /\ Done(p, "add_participant_to_experiment")
        /\ ExpBefore(p) # None
        /\ ExpBefore(p).experiment_variants = <<"v1", "v2">>
        /\ pre.variants["v1"].allocation = 0
        /\ Returned(p, "v2")

----------------------------------------------------------------------------
(* Concurrent admissions that select the same variant *)

\* an admission that has selected a variant returns it when it completes
SelectedReturned ==
    \A p \in Callers :
        (pc[p] \in {"apv_read", "apv_push"} /\ pc'[p] = "done")
        => ret'[p] = [kind |-> "return", val |-> loc[p].selected]

\* both admissions have returned the variant v
BothReturned(v) == \A p \in Callers : pc[p] = "done" /\ Returned(p, v)

\* the only change since the two calls began is u1, once more, in v
GrownByOne(v) ==
    /\ db.variants[v].participants = Append(pre.variants[v].participants, "u1")
    /\ \A w \in VarIds \ {v} : db.variants[w] = pre.variants[w]
    /\ db.experiments = pre.experiments

\* C32: when two concurrent admissions for the same participant select the
\* same variant, both calls return that variant's identity without raising
\* and the variant's membership count increases by exactly one.
C32_BenignAlreadyPresent ==
    /\ [][SelectedReturned]_vars
    /\ [](\A v \in VarIds : BothReturned(v) => GrownByOne(v))

C32_Witness == BothReturned("v1")

----------------------------------------------------------------------------
(* Batch setters, variant by variant *)

\* the first position of a negative weight in the list given to p's call
FirstNegative(p) ==
    CHOOSE k \in 1..Len(op[p].arg) :
        /\ op[p].arg[k] < 0
        /\ \A j \in 1..(k - 1) : op[p].arg[j] >= 0

\* the stored variants, those at the positions before k of the experiment's
\* list with the field set to the value given for their position, the
\* others as before the call
SetBefore(p, field, k) ==
    [v \in VarIds |->
        IF \E i \in 1..(k - 1) : ExpBefore(p).experiment_variants[i] = v
        THEN LET i == CHOOSE i \in 1..(k - 1) :
                          ExpBefore(p).experiment_variants[i] = v
             IN  [pre.variants[v] EXCEPT ![field] = op[p].arg[i]]
        ELSE pre.variants[v]]

\* C33: when update_variant_allocations is given a list that passes the
\* preconditions and holds a negative weight, first at index k, the call
\* raises, the variants at the indices below k have their new weights and
\* the variants at index k and above their old ones: nothing is rolled back.
C33_BatchNotAtomic ==
    \A p \in Callers :
        (/\ Done(p, "update_variant_allocations")
         /\ ~BatchRefused(p)
         /\ HasNegative(p))
        => /\ Raised(p, "Allocation must be a positive number")
           /\ db.variants = SetBefore(p, "allocation", FirstNegative(p))
           /\ db.experiments = pre.experiments

\* the first weight was written, the second rejected
C33_Witness ==
    \E p \in Callers :
        /\ Done(p, "update_variant_allocations")
        /\ ~BatchRefused(p)
        /\ HasNegative(p)
        /\ FirstNegative(p) = 2
        /\ db.variants["v1"].allocation # pre.variants["v1"].allocation
        /\ Raised(p, "Allocation must be a positive number")

\* the field a batch setter sets
BatchField(name) ==
    IF name = "update_variant_allocations" THEN "allocation" ELSE "description"

\* C34: after update_variant_allocations(E, w) has returned true, with no
\* concurrent activity, the variant at position i of E's stored variant list
\* has the weight w[i], for every i, and the name, description and membership
\* set of every variant are as before; update_variant_descriptions does the
\* same with descriptions.
C34_IndexAligned ==
    \A p \in Callers :
        (pc[p] = "done" /\ op[p].name \in BatchSetters /\ Returned(p, "True"))
        => /\ db.variants = SetBefore(p, BatchField(op[p].name),
                                      Len(op[p].arg) + 1)
           /\ db.experiments = pre.experiments

\* two different weights were given to two variants that hold a participant
C34_Witness ==
    \E p \in Callers :
        /\ Done(p, "update_variant_allocations")
        /\ Returned(p, "True")
        /\ Len(op[p].arg) = 2
        /\ op[p].arg[1] # op[p].arg[2]
        /\ pre.variants["v1"].allocation = op[p].arg[2]
        /\ pre.variants["v1"].participants = <<"u1">>

----------------------------------------------------------------------------
(* Concurrent creates *)

\* C35: under any interleaving of gateway create calls that carry the same
\* identity, the collection holds at most one document for that identity and
\* at most one of the calls returns the identity, the others null.
C35_UniqueUnderConcurrency ==
    /\ \A e \in ExpIds : db.copies["experiments"][e] = 0
    /\ \A p, q \in Callers :
         (/\ p # q
          /\ Done(p, "crud_create") /\ Done(q, "crud_create")
          /\ GivenUuid(p) = GivenUuid(q)
          /\ Returned(p, GivenUuid(p)))
         => Returned(q, NoUuid)

----------------------------------------------------------------------------
(* The variant list of an experiment *)

\* no identity occurs twice in the variant list of a stored experiment
NoDuplicateVariant ==
    \A e \in ExpIds : \A v \in VarIds :
        db.experiments[e] # None
        => Count(v, db.experiments[e].experiment_variants) <= 1

\* the variant list of a stored experiment grows at its end, if it changes
VariantOrderKept ==
    \A e \in ExpIds :
        db.experiments[e] # None
        => /\ db'.experiments[e] # None
           /\ Len(db'.experiments[e].experiment_variants)
                >= Len(db.experiments[e].experiment_variants)
           /\ SubSeq(db'.experiments[e].experiment_variants, 1,
                     Len(db.experiments[e].experiment_variants))
                = db.experiments[e].experiment_variants

\* C36: after any sequence of add_variant_to_experiment and push_variant
\* calls, repeated pushes of one variant included, and lifecycle operations,
\* every variant identity occurs at most once in the experiment's variant
\* list, and the entries already there keep their relative order.
C36_NoDuplicateVariant == []NoDuplicateVariant /\ [][VariantOrderKept]_vars

\* a variant already second in the list was pushed again
C36_Witness ==
    \E p \in Callers :
        /\ Done(p, "push_variant")
        /\ ExpBefore(p) # None
        /\ Len(ExpBefore(p).experiment_variants) = 2
        /\ ExpBefore(p).experiment_variants[1] = op[p].variant_uuid
        /\ Returned(p, "False")

\* C37: under any interleaving of push_variant / add_variant_to_experiment
\* with start_experiment, pause_experiment, stop_experiment or
\* complete_experiment on the same experiment, a variant whose push reported
\* that the set changed is in the experiment's variant list once both
\* operations have completed.
C37_VariantKept ==
    AllIdle =>
        \A x \in pushed :
            x.coll = "experiments"
            => Member(x.x, db.experiments[x.id].experiment_variants)

\* the fields that the keyword arguments of a call name
NamedFields(p) == {op[p].arg[n].f : n \in 1..Len(op[p].arg)}

\* a repository update of a stored experiment with fields of the model
\* other than the identity
ValidUpdate(p) ==
    /\ Done(p, "repository_update")
    /\ StoredBefore(op[p].experiment_uuid) # None
    /\ NamedFields(p) \subseteq
         InstanceFields("experiments") \ {"experiment_uuid"}

\* C38: with no concurrent activity, a repository update of an existing
\* entity returns the entity as stored after the write, in which every named
\* field has the given value (a status as the member of the enum) and every
\* field not named keeps its previous value; it returns null, without
\* raising, exactly when the store reports that no document was modified.
C38_PartialUpdate ==
    \A p \in Callers :
        ValidUpdate(p)
        => LET e == op[p].experiment_uuid
           IN  /\ ret[p].kind = "return"
               /\ ret[p].val \in {e, NoUuid}
               /\ ret[p].val = NoUuid <=> db = pre
               /\ \A n \in 1..Len(op[p].arg) :
                     ReadBack(e, op[p].arg[n].f, op[p].arg[n].v)
               /\ \A f \in DOMAIN Read("experiments", e) \ NamedFields(p) :
                     Read("experiments", e)[f]
                       = Hydrate(StoredBefore(e))[f]

C38_Witness ==
    \E p \in Callers :
        /\ ValidUpdate(p)
        /\ op[p].arg = <<Kw("experiment_status", "PAUSED")>>
        /\ Returned(p, op[p].experiment_uuid)
        /\ StoredBefore(op[p].experiment_uuid).experiment_status = "running"
        /\ Read("experiments", op[p].experiment_uuid).experiment_status
             = "PAUSED"

\* the update that leaves the document as it was returns null
C38_WitnessNull ==
    \E p \in Callers :
        /\ ValidUpdate(p)
        /\ op[p].arg = <<Kw("experiment_status", "PAUSED")>>
        /\ StoredBefore(op[p].experiment_uuid).experiment_status = "paused"
        /\ Returned(p, NoUuid)

\* the username stored for user w
UsernameOf(w) == db.users[w].username

\* C39: after any sequence or interleaving of create_user and
\* update_username calls, no two stored users have the same username.
C39_UniqueUsernames ==
    \A a \in UserIds : \A b \in UserIds \ {a} :
        (db.users[a] # None /\ db.users[b] # None)
        => UsernameOf(a) # UsernameOf(b)

============================================================================
